---------------------------- MODULE Spec2Model ----------------------------
(***************************************************************************)
(* Vizzy Chat creative-request orchestrator (src/chat/services.py) and the *)
(* two callers of generate_response in src/chat/views.py.                  *)
(*                                                                         *)
(* Python strings that the code inspects character by character (request   *)
(* text, keyword tables, the classifier's answer) are sequences of         *)
(* one-character strings, so that lower(), strip(), rstrip() and the `in`  *)
(* substring test are computed as Python computes them.  Python None is    *)
(* the string "None".  A confidence is an exact number of sixtieths        *)
(* (0.95 = 57/60, 0.9 = 54/60, 0.85 = 51/60, 0.5 = 30/60, 1/3 = 20/60).     *)
(***************************************************************************)
EXTENDS Integers, Sequences, FiniteSets, TLC

VARIABLES
  settings,       \* django settings: which provider credentials are configured
  _client,        \* services._client, the memoized google-genai handle
  user_context,   \* Conversation.user_context of the one stored conversation
  messages,       \* Message rows of that conversation, ordered by created_at
  pc,             \* position of the request being handled
  via,            \* who called generate_response: "direct", "regenerate"
  req,            \* arguments of the current generate_response call
  target,         \* regenerate_message: index of the assistant message, else 0
  intent,         \* generate_response local
  confidence,     \* generate_response local
  cls,            \* what classify_intent did for this request
  client,         \* generate_response local (line 1510)
  content_items,  \* generate_response local
  response_text,  \* generate_response local
  calls,          \* provider attempts issued for this request, in order
  result,         \* dict returned by generate_response
  http,           \* last response of an HTTP endpoint
  sessions,       \* per worker: the Conversation instance it has loaded
  stitch,         \* a call of _create_gif_from_images: arguments and return value
  mockup,         \* a call of _generate_product_mockup: arguments and return value
  job,            \* a call of an asynchronous provider: its polling loop
  threads,        \* per thread: its position in a call of get_genai_client
  prompts         \* what each text provider call of the call under way was given

vars == <<settings, _client, user_context, messages, pc, via, req, target, intent,
          confidence, cls, client, content_items, response_text, calls, result, http,
          sessions, stitch, mockup, job, threads, prompts>>

None == "None"

\* ---------------------------------------------------------------- strings

Min(a, b) == IF a <= b THEN a ELSE b

\* A float of the code as an exact number of sixtieths.
Frac(n, d) == (60 * n) \div d

UpperCase ==
  <<"A","B","C","D","E","F","G","H","I","J","K","L","M",
    "N","O","P","Q","R","S","T","U","V","W","X","Y","Z">>

LowerCase ==
  <<"a","b","c","d","e","f","g","h","i","j","k","l","m",
    "n","o","p","q","r","s","t","u","v","w","x","y","z">>

\* str.lower(), one character
LowerChar(c) ==
  IF \E i \in 1..Len(UpperCase) : UpperCase[i] = c
  THEN LowerCase[CHOOSE i \in 1..Len(UpperCase) : UpperCase[i] = c]
  ELSE c

\* str.lower()
Lower(s) == [i \in 1..Len(s) |-> LowerChar(s[i])]

Whitespace == {" ", "\n", "\t", "\r"}

\* str.rstrip(chars)
RECURSIVE RStrip(_, _)
RStrip(s, chars) ==
  IF s # <<>> /\ s[Len(s)] \in chars THEN RStrip(SubSeq(s, 1, Len(s) - 1), chars) ELSE s

\* str.lstrip(chars)
RECURSIVE LStrip(_, _)
LStrip(s, chars) ==
  IF s # <<>> /\ s[1] \in chars THEN LStrip(Tail(s), chars) ELSE s

\* str.strip()
Strip(s) == LStrip(RStrip(s, Whitespace), Whitespace)

\* kw in s
Contains(kw, s) ==
  \E i \in 0..(Len(s) - Len(kw)) : SubSeq(s, i + 1, i + Len(kw)) = kw

\* ---------------------------------------------------------------- tables

INTENT_MAP ==
  <<
    \* image_generation: paint, draw, create, generate, make, imagine, design, sketch, illustrate, render, visualize, show me, image, photo, picture, pic
    [intent |-> "image_generation", keywords |-> <<
      <<"p","a","i","n","t">>, <<"d","r","a","w">>, <<"c","r","e","a","t","e">>,
      <<"g","e","n","e","r","a","t","e">>, <<"m","a","k","e">>, <<"i","m","a","g","i","n","e">>,
      <<"d","e","s","i","g","n">>, <<"s","k","e","t","c","h">>,
      <<"i","l","l","u","s","t","r","a","t","e">>, <<"r","e","n","d","e","r">>,
      <<"v","i","s","u","a","l","i","z","e">>, <<"s","h","o","w"," ","m","e">>,
      <<"i","m","a","g","e">>, <<"p","h","o","t","o">>, <<"p","i","c","t","u","r","e">>,
      <<"p","i","c">>
    >>],
    \* image_transformation: transform, turn this, convert, reimagine, restyle, renaissance, style transfer, remake, enhance, edit
    [intent |-> "image_transformation", keywords |-> <<
      <<"t","r","a","n","s","f","o","r","m">>, <<"t","u","r","n"," ","t","h","i","s">>,
      <<"c","o","n","v","e","r","t">>, <<"r","e","i","m","a","g","i","n","e">>,
      <<"r","e","s","t","y","l","e">>, <<"r","e","n","a","i","s","s","a","n","c","e">>,
      <<"s","t","y","l","e"," ","t","r","a","n","s","f","e","r">>, <<"r","e","m","a","k","e">>,
      <<"e","n","h","a","n","c","e">>, <<"e","d","i","t">>
    >>],
    \* poster_design: poster, signage, sign, banner, flyer, quote poster, sale poster, menu, advertisement
    [intent |-> "poster_design", keywords |-> <<
      <<"p","o","s","t","e","r">>, <<"s","i","g","n","a","g","e">>, <<"s","i","g","n">>,
      <<"b","a","n","n","e","r">>, <<"f","l","y","e","r">>,
      <<"q","u","o","t","e"," ","p","o","s","t","e","r">>,
      <<"s","a","l","e"," ","p","o","s","t","e","r">>, <<"m","e","n","u">>,
      <<"a","d","v","e","r","t","i","s","e","m","e","n","t">>
    >>],
    \* vision_board: vision board, moodboard, mood board, goals, collage, inspiration board
    [intent |-> "vision_board", keywords |-> <<
      <<"v","i","s","i","o","n"," ","b","o","a","r","d">>, <<"m","o","o","d","b","o","a","r","d">>,
      <<"m","o","o","d"," ","b","o","a","r","d">>, <<"g","o","a","l","s">>,
      <<"c","o","l","l","a","g","e">>,
      <<"i","n","s","p","i","r","a","t","i","o","n"," ","b","o","a","r","d">>
    >>],
    \* brand_artwork: brand, logo, branding, brand-themed, product video, apple-esque, premium, campaign, marketing
    [intent |-> "brand_artwork", keywords |-> <<
      <<"b","r","a","n","d">>, <<"l","o","g","o">>, <<"b","r","a","n","d","i","n","g">>,
      <<"b","r","a","n","d","-","t","h","e","m","e","d">>,
      <<"p","r","o","d","u","c","t"," ","v","i","d","e","o">>,
      <<"a","p","p","l","e","-","e","s","q","u","e">>, <<"p","r","e","m","i","u","m">>,
      <<"c","a","m","p","a","i","g","n">>, <<"m","a","r","k","e","t","i","n","g">>
    >>],
    \* story_sequence: story, storybook, scene by scene, sequence, narrative, chapter, tale
    [intent |-> "story_sequence", keywords |-> <<
      <<"s","t","o","r","y">>, <<"s","t","o","r","y","b","o","o","k">>,
      <<"s","c","e","n","e"," ","b","y"," ","s","c","e","n","e">>,
      <<"s","e","q","u","e","n","c","e">>, <<"n","a","r","r","a","t","i","v","e">>,
      <<"c","h","a","p","t","e","r">>, <<"t","a","l","e">>
    >>],
    \* video_loop: video loop, animation, animated, motion, looping, cinematic, video, movie, clip
    [intent |-> "video_loop", keywords |-> <<
      <<"v","i","d","e","o"," ","l","o","o","p">>, <<"a","n","i","m","a","t","i","o","n">>,
      <<"a","n","i","m","a","t","e","d">>, <<"m","o","t","i","o","n">>,
      <<"l","o","o","p","i","n","g">>, <<"c","i","n","e","m","a","t","i","c">>,
      <<"v","i","d","e","o">>, <<"m","o","v","i","e">>, <<"c","l","i","p">>
    >>],
    \* product_mockup: mockup, mock up, product, t-shirt, tshirt, mug, phone case, hoodie, merchandise, merch, put this on, place on, print on
    [intent |-> "product_mockup", keywords |-> <<
      <<"m","o","c","k","u","p">>, <<"m","o","c","k"," ","u","p">>, <<"p","r","o","d","u","c","t">>,
      <<"t","-","s","h","i","r","t">>, <<"t","s","h","i","r","t">>, <<"m","u","g">>,
      <<"p","h","o","n","e"," ","c","a","s","e">>, <<"h","o","o","d","i","e">>,
      <<"m","e","r","c","h","a","n","d","i","s","e">>, <<"m","e","r","c","h">>,
      <<"p","u","t"," ","t","h","i","s"," ","o","n">>, <<"p","l","a","c","e"," ","o","n">>,
      <<"p","r","i","n","t"," ","o","n">>
    >>],
    \* text_only: text, chat, ask, question, write, poem, essay, story, script, code, explain, tell me, lyrics
    [intent |-> "text_only", keywords |-> <<
      <<"t","e","x","t">>, <<"c","h","a","t">>, <<"a","s","k">>,
      <<"q","u","e","s","t","i","o","n">>, <<"w","r","i","t","e">>, <<"p","o","e","m">>,
      <<"e","s","s","a","y">>, <<"s","t","o","r","y">>, <<"s","c","r","i","p","t">>,
      <<"c","o","d","e">>, <<"e","x","p","l","a","i","n">>, <<"t","e","l","l"," ","m","e">>,
      <<"l","y","r","i","c","s">>
    >>]
  >>

SHORT_FOLLOWUPS ==
  \* again, another, another one, continue, do it, go ahead, more, ok, okay, one more, please, sure, try again, yeah, yep, yes, yes please
  {
    <<"a","g","a","i","n">>, <<"a","n","o","t","h","e","r">>,
    <<"a","n","o","t","h","e","r"," ","o","n","e">>, <<"c","o","n","t","i","n","u","e">>,
    <<"d","o"," ","i","t">>, <<"g","o"," ","a","h","e","a","d">>, <<"m","o","r","e">>, <<"o","k">>,
    <<"o","k","a","y">>, <<"o","n","e"," ","m","o","r","e">>, <<"p","l","e","a","s","e">>,
    <<"s","u","r","e">>, <<"t","r","y"," ","a","g","a","i","n">>, <<"y","e","a","h">>,
    <<"y","e","p">>, <<"y","e","s">>, <<"y","e","s"," ","p","l","e","a","s","e">>
  }

interesting_keywords ==
  \* minimalist, cyberpunk, watercolor, noir, vintage, abstract, photorealistic, 3d render, flat design, apple-esque, premium, dark mode, pastel
  <<
    <<"m","i","n","i","m","a","l","i","s","t">>, <<"c","y","b","e","r","p","u","n","k">>,
    <<"w","a","t","e","r","c","o","l","o","r">>, <<"n","o","i","r">>,
    <<"v","i","n","t","a","g","e">>, <<"a","b","s","t","r","a","c","t">>,
    <<"p","h","o","t","o","r","e","a","l","i","s","t","i","c">>,
    <<"3","d"," ","r","e","n","d","e","r">>, <<"f","l","a","t"," ","d","e","s","i","g","n">>,
    <<"a","p","p","l","e","-","e","s","q","u","e">>, <<"p","r","e","m","i","u","m">>,
    <<"d","a","r","k"," ","m","o","d","e">>, <<"p","a","s","t","e","l">>
  >>

style_name ==
  <<"minimalist", "cyberpunk", "watercolor", "noir", "vintage", "abstract", "photorealistic", "3d render", "flat design", "apple-esque", "premium", "dark mode", "pastel">>

\* Every intent classify_intent can name: the keys of INTENT_MAP, in dict order.
IntentKeys == {INTENT_MAP[i].intent : i \in 1..Len(INTENT_MAP)}

\* The label of an intent as the characters a provider would answer with.
intent_label ==
  [i \in IntentKeys |->
     CASE i = "image_generation" ->
            <<"i","m","a","g","e","_","g","e","n","e","r","a","t","i","o","n">>
       [] i = "image_transformation" ->
            <<"i","m","a","g","e","_","t","r","a","n","s","f","o","r","m","a","t","i","o","n">>
       [] i = "poster_design" -> <<"p","o","s","t","e","r","_","d","e","s","i","g","n">>
       [] i = "vision_board" -> <<"v","i","s","i","o","n","_","b","o","a","r","d">>
       [] i = "brand_artwork" -> <<"b","r","a","n","d","_","a","r","t","w","o","r","k">>
       [] i = "story_sequence" -> <<"s","t","o","r","y","_","s","e","q","u","e","n","c","e">>
       [] i = "video_loop" -> <<"v","i","d","e","o","_","l","o","o","p">>
       [] i = "product_mockup" -> <<"p","r","o","d","u","c","t","_","m","o","c","k","u","p">>
       [] i = "text_only" -> <<"t","e","x","t","_","o","n","l","y">>]

\* ---------------------------------------------------------------- inputs

TxtYes        == <<"y","e","s">>
TxtYesPlease  == <<"Y","e","s"," ","p","l","e","a","s","e","!">>
TxtHello      == <<"h","e","l","l","o">>
TxtNoirPoster == <<"n","o","i","r"," ","p","o","s","t","e","r">>
TxtVideoClip  == <<"v","i","d","e","o"," ","c","l","i","p">>
TxtMugMockup  == <<"p","a","s","t","e","l"," ","m","u","g"," ","m","o","c","k","u","p">>
TxtEmpty      == <<>>
TxtDrawPoster == <<"d","r","a","w"," ","a"," ","p","o","s","t","e","r">>

\* Request texts the callers send.
Texts == {TxtYes, TxtYesPlease, TxtHello, TxtNoirPoster, TxtVideoClip, TxtMugMockup, TxtEmpty}

\* Texts handed to the classifier alone: two ties between intents, a later
\* intent with the higher score, and upper-case letters.
ClassifierTexts ==
  { TxtDrawPoster,
    <<"l","o","g","o"," ","m","e","n","u">>,   \* 'logo menu'
    <<"e","d","i","t"," ","t","e","x","t">>,   \* 'edit text'
    <<"P","A","I","N","T">> }                  \* 'PAINT'


\* Every sample text.
AllTexts == Texts \cup ClassifierTexts

\* What the language-understanding provider may answer (response.text); None is
\* a response without text.
LLMTexts ==
  { <<" ","P","o","s","t","e","r","_","D","e","s","i","g","n","\n">>,  \* " Poster_Design\n"
    <<"t","e","x","t","_","o","n","l","y">>,                            \* "text_only"
    <<"a"," ","p","o","s","t","e","r">>,                                \* "a poster"
    <<"r","e","f","i","n","e","m","e","n","t">> }                       \* "refinement"

\* What one outbound call can end in.  Every strategy of the code maps all but
\* "ok" to "no result".
Outcomes == {"ok", "transport_error", "bad_status", "malformed"}

\* ---------------------------------------------------------------- client

\* get_genai_client(): the set of (memo after the call, value returned).
get_genai_client(memo, st) ==
  IF memo # None THEN {[memo |-> memo, ret |-> memo]}
  ELSE IF ~st.GEMINI_API_KEY THEN {[memo |-> None, ret |-> None]}
  ELSE { IF o = "ok" THEN [memo |-> "genai.Client", ret |-> "genai.Client"]
                     ELSE [memo |-> None, ret |-> None]
         : o \in {"ok", "ImportError", "Exception"} }

\* ---------------------------------------------------------------- classifier

\* Fault variant of weight: every intent counts once.
weight_flat(i) == 1

\* weight = 2 if intent in ['video_loop', 'text_only'] else 1
weight(i) == IF i \in {"video_loop", "text_only"} THEN 2 ELSE 1

\* score = sum(weight for kw in keywords if kw in text_lower)
score(entry, text_lower) ==
  weight(entry.intent) *
    Cardinality({k \in 1..Len(entry.keywords) : Contains(entry.keywords[k], text_lower)})

\* Fault variant of keyword_confidence: the cap at 1.0 is left out.
keyword_confidence_uncapped(s) == Frac(s, 3)

\* confidence = min(scores[best_intent] / 3.0, 1.0)
keyword_confidence(s) == Min(Frac(s, 3), Frac(1, 1))

\* Step 2 of classify_intent: keyword matching.
keyword_match(message_text) ==
  LET text_lower == Lower(message_text)
      sc == [i \in 1..Len(INTENT_MAP) |-> score(INTENT_MAP[i], text_lower)]
      scored == {i \in 1..Len(INTENT_MAP) : sc[i] > 0}
  IN  IF scored = {}
      THEN [intent |-> "text_only", confidence |-> Frac(1, 2), src |-> "default", score |-> 0]
      ELSE LET \* max(scores, key=scores.get): the first key holding the maximum
               best == CHOOSE i \in scored :
                         /\ \A j \in scored : sc[j] <= sc[i]
                         /\ \A j \in scored : j < i => sc[j] < sc[i]
           IN  [intent |-> INTENT_MAP[best].intent,
                confidence |-> keyword_confidence(sc[best]),
                src |-> "keyword", score |-> sc[best]]

\* keyword_match of every sample text, computed once.
keyword_table == [t \in AllTexts |-> keyword_match(t)]

\* Fault variant of llm_match: the answer is compared as it came.
llm_match_untrimmed(answer) ==
  IF \E i \in IntentKeys \cup {"text_only"} : intent_label[i] = answer
  THEN [intent |-> CHOOSE i \in IntentKeys \cup {"text_only"} : intent_label[i] = answer,
        confidence |-> Frac(95, 100), src |-> "llm", score |-> 0]
  ELSE [intent |-> None, confidence |-> 0, src |-> "invalid", score |-> 0]

\* Step 1 of classify_intent: the provider's answer, validated.
\* intent = response.text.strip().lower(); valid_intents = keys + ['text_only']
llm_match(answer) ==
  LET label == Lower(Strip(answer))
  IN  IF \E i \in IntentKeys \cup {"text_only"} : intent_label[i] = label
      THEN [intent |-> CHOOSE i \in IntentKeys \cup {"text_only"} : intent_label[i] = label,
            confidence |-> Frac(95, 100), src |-> "llm", score |-> 0]
      ELSE [intent |-> None, confidence |-> 0, src |-> "invalid", score |-> 0]

\* What the two generate_content attempts of classify_intent can end in: a
\* response with a text, or an exception (both attempts raising, or a response
\* whose text is None, on which .strip() raises).
llm_answers ==
  { [raised |-> FALSE, text |-> a] : a \in LLMTexts } \cup
  { [raised |-> TRUE, text |-> <<>>] : o \in Outcomes \ {"ok"} }

\* The provider was not asked.
NoAnswer == [raised |-> FALSE, text |-> <<>>]

\* classify_intent(message_text): the set of (memo after, classification).
classify_intent(message_text, memo, st) ==
  UNION {
    IF g.ret = None
    THEN {[memo |-> g.memo,
           cls |-> keyword_table[message_text]
                   @@ [invoked |-> TRUE, llm |-> FALSE, answer |-> NoAnswer]]}
    ELSE { LET m == IF a.raised THEN [src |-> "invalid"] ELSE llm_match(a.text)
           IN  [memo |-> g.memo,
                cls |-> (IF m.src = "llm" THEN m ELSE keyword_table[message_text])
                        @@ [invoked |-> TRUE, llm |-> TRUE, answer |-> a]]
           : a \in llm_answers }
    : g \in get_genai_client(memo, st) }

\* classify_intent was not called.
NoCls == [intent |-> None, confidence |-> 0, src |-> "none", score |-> 0,
          invoked |-> FALSE, llm |-> FALSE, answer |-> NoAnswer]

\* ---------------------------------------------------------------- intent

\* is_short_followup = message_text.strip().lower().rstrip('.!') in SHORT_FOLLOWUPS
is_short_followup(message_text) ==
  RStrip(Lower(Strip(message_text)), {".", "!"}) \in SHORT_FOLLOWUPS

\* is_short_followup of every sample text, computed once.
followup_table == [t \in AllTexts |-> is_short_followup(t)]

\* Python truthiness of an optional string argument.
Truthy(s) == s \notin {None, ""}

\* conversation.messages.filter(role='assistant').order_by('-created_at').first():
\* the index of the most recent assistant message, 0 when there is none.
last_assistant(msgs) ==
  IF \E i \in 1..Len(msgs) : msgs[i].role = "assistant"
  THEN CHOOSE i \in 1..Len(msgs) :
         /\ msgs[i].role = "assistant"
         /\ \A j \in (i + 1)..Len(msgs) : msgs[j].role # "assistant"
  ELSE 0

\* Fault variant of refinement_given: an attached image takes precedence.
refinement_after_image(r) == Truthy(r.refinement_url) /\ ~r.image_file

\* if refinement_url:
refinement_given(r) == Truthy(r.refinement_url)

\* Fault variant of image_given: an explicit mode takes precedence.
image_after_mode(r) == r.image_file /\ r.mode = None

\* elif image_file:
image_given(r) == r.image_file

\* Fault variant of followup_applies: an explicit mode takes precedence.
followup_after_mode(r) == followup_table[r.text] /\ r.conversation /\ r.mode = None

\* elif is_short_followup and conversation:
followup_applies(r) == followup_table[r.text] /\ r.conversation

\* The follow-up branch (lines 1473-1482).
followup_intent(msgs) ==
  LET la == last_assistant(msgs)
  IN  IF la # 0 /\ msgs[la].message_type # "text"
      THEN [intent |-> msgs[la].message_type, confidence |-> Frac(9, 10)]
      ELSE [intent |-> "text_only", confidence |-> Frac(85, 100)]

\* Fault variant of image_mode_intent: the text_only override is left out.
image_mode_unchanged(c) == [intent |-> c.intent, confidence |-> c.confidence]

\* The mode == 'image' branch (lines 1490-1496) applied to a classification.
image_mode_intent(c) ==
  IF c.intent = "text_only"
  THEN [intent |-> "image_generation", confidence |-> Frac(1, 1)]
  ELSE [intent |-> c.intent, confidence |-> c.confidence]

\* Step 0 of generate_response (lines 1459-1498): the set of
\* (intent, confidence, classification, memo after).
resolve_intent(r, msgs, memo, st) ==
  IF refinement_given(r)
  THEN {[intent |-> "refinement", confidence |-> Frac(1, 1), cls |-> NoCls, memo |-> memo]}
  ELSE IF image_given(r)
  THEN {[intent |-> "image_transformation", confidence |-> Frac(1, 1), cls |-> NoCls,
         memo |-> memo]}
  ELSE IF followup_applies(r)
  THEN {followup_intent(msgs) @@ [cls |-> NoCls, memo |-> memo]}
  ELSE IF r.mode = "video"
  THEN {[intent |-> "video_loop", confidence |-> Frac(1, 1), cls |-> NoCls, memo |-> memo]}
  ELSE IF r.mode = "image"
  THEN {image_mode_intent(c.cls) @@ c : c \in classify_intent(r.text, memo, st)}
  ELSE {[intent |-> c.cls.intent, confidence |-> c.cls.confidence] @@ c
        : c \in classify_intent(r.text, memo, st)}

\* ---------------------------------------------------------------- context memory

EmptyDict == [k \in {} |-> None]

\* found_styles = [kw for kw in interesting_keywords if kw in message_text.lower()]
found_styles(message_text) ==
  {style_name[k] : k \in {j \in 1..Len(interesting_keywords) :
                            Contains(interesting_keywords[j], Lower(message_text))}}

\* found_styles of every sample text, computed once.
styles_table == [t \in AllTexts |-> found_styles(t)]

\* dict.get(key, default)
Get(d, k, default) == IF k \in DOMAIN d THEN d[k] ELSE default

Range(s) == {s[i] : i \in 1..Len(s)}

\* list(set(xs)): the elements once each, in the order the set happens to iterate.
ListsOf(S) ==
  {p \in [1..Cardinality(S) -> S] : \A i, j \in 1..Cardinality(S) : p[i] = p[j] => i = j}

\* Fault variant of _update_user_context: the context is rebuilt with the
\* styles alone.
_update_user_context_styles_only(ctx, message_text) ==
  LET found == styles_table[message_text]
  IN  IF found = {} THEN {ctx}
      ELSE LET existing_styles == Get(ctx, "preferred_styles", <<>>)
           IN  { [k \in {"preferred_styles"} |-> updated]
                 : updated \in ListsOf(Range(existing_styles) \cup found) }

\* Fault variant of _update_user_context: the found styles are appended, set() is
\* left out.
_update_user_context_appending(ctx, message_text) ==
  LET found == styles_table[message_text]
  IN  IF found = {} THEN {ctx}
      ELSE LET existing_styles == Get(ctx, "preferred_styles", <<>>)
           IN  { [k \in DOMAIN ctx \cup {"preferred_styles"} |->
                    IF k = "preferred_styles" THEN existing_styles \o added ELSE ctx[k]]
                 : added \in ListsOf(found) }

\* _update_user_context (lines 842-868): the set of possible stored contexts after.
_update_user_context(ctx, message_text) ==
  LET found == styles_table[message_text]
  IN  IF found = {} THEN {ctx}
      ELSE LET existing_styles == Get(ctx, "preferred_styles", <<>>)
           IN  { [k \in DOMAIN ctx \cup {"preferred_styles"} |->
                    IF k = "preferred_styles" THEN updated ELSE ctx[k]]
                 : updated \in ListsOf(Range(existing_styles) \cup found) }

\* ---------------------------------------------------------------- providers

\* count = 4 in _generate_real_content_items
count == 4
\* for i in range(2): the Hugging Face fallback
hf_count == 2
\* count=4, the default of _generate_mock_content_items
mock_count == 4

\* How many of n calls of one strategy yield a result, over every mix of outcomes.
ok_counts ==
  [n \in 0..4 |-> {Cardinality({i \in 1..n : f[i] = "ok"}) : f \in [1..n -> Outcomes]}]

\* Whether one call of a strategy yields a result, over every outcome.
Attempt == {o = "ok" : o \in Outcomes}

\* How many images one Imagen batch call yields.
imagen_counts == {IF o = "ok" THEN n ELSE 0 : o \in Outcomes, n \in 0..count}

Item(ct, url) == [content_type |-> ct, image_url |-> url]

\* One strategy invoked at a call site: n requests issued, ok results obtained.
Call(site, fn, n, ok) == [site |-> site, fn |-> fn, n |-> n, ok |-> ok]

Rep(x, k) == [i \in 1..k |-> x]

Bind(S, F(_)) == UNION {F(x) : x \in S}

\* content_type_map.get(intent, 'image') of _generate_real_content_items
real_content_type(it) ==
  CASE it = "image_generation" -> "artwork"
    [] it = "image_transformation" -> "photo"
    [] it = "poster_design" -> "poster"
    [] it = "vision_board" -> "vision_board"
    [] it = "brand_artwork" -> "brand_asset"
    [] it = "story_sequence" -> "artwork"
    [] it = "video_loop" -> "video"
    [] OTHER -> "image"

\* content_type_map.get(intent, 'image') of _generate_mock_content_items
mock_content_type(it) ==
  CASE it = "image_generation" -> "artwork"
    [] it = "image_transformation" -> "photo"
    [] it = "poster_design" -> "poster"
    [] it = "vision_board" -> "vision_board"
    [] it = "brand_artwork" -> "brand_asset"
    [] it = "story_sequence" -> "artwork"
    [] it = "video_loop" -> "artwork"
    [] OTHER -> "image"

\* ---------------------------------------------------------------- text-to-image

\* Lines 1283-1290: NVIDIA NIM, count calls.
t2i_nvidia(p, st, site) ==
  IF st.NVIDIA_API_KEY
  THEN { [p EXCEPT !.urls = Rep("/media/generated/nvidia.png", k),
                   !.calls = @ \o <<Call(site, "_generate_nvidia_image", count, k)>>]
         : k \in ok_counts[count] }
  ELSE {p}

\* Lines 1292-1293: Imagen, one batch call (none without a client).
t2i_imagen(p, st, site) ==
  IF p.urls # <<>> THEN {p}
  ELSE Bind(get_genai_client(p.memo, st),
            LAMBDA g :
              IF g.ret = None THEN {[p EXCEPT !.memo = g.memo]}
              ELSE { [p EXCEPT !.memo = g.memo,
                               !.urls = Rep("/media/generated/imagen.png", k),
                               !.calls = @ \o <<Call(site, "_generate_imagen_images_batch", 1, k)>>]
                     : k \in imagen_counts })

\* Lines 1295-1308: a video loop of at least 2 frames is stitched and returned alone.
t2i_gif(p, it, site) ==
  IF it = "video_loop" /\ Len(p.urls) >= 2
  THEN { IF gif
         THEN [p EXCEPT !.done = TRUE,
                        !.items = <<Item("video", "/media/generated/animation.gif")>>,
                        !.calls = @ \o <<Call(site, "_create_gif_from_images", 1, 1)>>]
         ELSE [p EXCEPT !.calls = @ \o <<Call(site, "_create_gif_from_images", 1, 0)>>]
         : gif \in Attempt }
  ELSE {p}

\* Lines 1310-1317: Hugging Face, 2 calls.
t2i_huggingface(p, st, site) ==
  IF ~p.done /\ p.urls = <<>> /\ st.HUGGINGFACE_API_KEY
  THEN { [p EXCEPT !.urls = Rep("/media/generated/huggingface.png", k),
                   !.calls = @ \o <<Call(site, "_generate_huggingface_image", hf_count, k)>>]
         : k \in ok_counts[hf_count] }
  ELSE {p}

\* Lines 1319-1326: Pollinations, count calls.
t2i_pollinations(p, site) ==
  IF ~p.done /\ p.urls = <<>>
  THEN { [p EXCEPT !.urls = Rep("/media/generated/pollinations.jpg", k),
                   !.calls = @ \o <<Call(site, "_generate_pollinations_image", count, k)>>]
         : k \in ok_counts[count] }
  ELSE {p}

\* Lines 1328-1338: one item per image url.
t2i_items(p, it) ==
  IF p.done THEN p
  ELSE [p EXCEPT !.items = [i \in 1..Len(p.urls) |-> Item(real_content_type(it), p.urls[i])]]

\* _generate_real_content_items(intent, ..., image_file) called at `site`: the set of
\* (items returned, calls issued, memo after).
_generate_real_content_items(it, image_file, memo, st, site) ==
  LET start(cs) == [urls |-> <<>>, calls |-> cs, memo |-> memo, done |-> FALSE, items |-> <<>>]
      chain(cs) ==
        IF it = "text_only" THEN {start(cs)}
        ELSE LET a == t2i_nvidia(start(cs), st, site)
                 b == Bind(a, LAMBDA p : t2i_imagen(p, st, site))
                 c == Bind(b, LAMBDA p : t2i_gif(p, it, site))
                 d == Bind(c, LAMBDA p : t2i_huggingface(p, st, site))
                 e == Bind(d, LAMBDA p : t2i_pollinations(p, site))
             IN  {t2i_items(p, it) : p \in e}
      \* lines 1223-1238: the image-editing attempt of an image_transformation
      runs ==
        IF it = "image_transformation" /\ image_file /\ st.HUGGINGFACE_API_KEY
        THEN UNION { IF edited
                     THEN {[start(<<Call(site, "_edit_huggingface_image", 1, 1)>>)
                              EXCEPT !.items = <<Item("photo", "/media/generated/edited.png")>>]}
                     ELSE chain(<<Call(site, "_edit_huggingface_image", 1, 0)>>)
                     : edited \in Attempt }
        ELSE chain(<<>>)
  IN  {[items |-> p.items, calls |-> p.calls, memo |-> p.memo] : p \in runs}

\* ---------------------------------------------------------------- mock

\* _generate_mock_content_items(intent, message_text): the set of (items, calls).
_generate_mock_content_items(it) ==
  IF it = "text_only" THEN {[items |-> <<>>, calls |-> <<>>]}
  ELSE LET stills == [items |-> Rep(Item(mock_content_type(it), "https://picsum.photos/seed"),
                                    mock_count),
                      calls |-> <<>>]
       IN  IF it = "video_loop"
           THEN { IF k > 0
                  THEN [items |-> Rep(Item("video", "/media/generated/animation.gif"), k),
                        calls |-> <<Call("mock", "_create_gif_from_images", mock_count, k)>>]
                  ELSE [stills EXCEPT
                          !.calls = <<Call("mock", "_create_gif_from_images", mock_count, 0)>>]
                  : k \in ok_counts[mock_count] }
           ELSE {stills}

\* ---------------------------------------------------------------- loop stitching

\* No animation: the None that _create_gif_from_images returns.
NoGif == [url |-> None, frames |-> <<>>, sizes |-> <<>>, duration |-> 0, loop |-> 0 - 1]

\* Where a still-image reference points: under /media/, at an http(s) address,
\* elsewhere (neither branch of lines 898 and 912 takes it).
FrameSchemes == {"media", "http", "other"}

\* What fetching and decoding a reference end in: "ok"; "missing" (the path does
\* not exist, requests.get raises or the status is not 200); "undecodable"
\* (Image.open raises); "truncated" (Image.open reads the header and returns, the
\* pixel data fail to decode when the image is loaded).
FrameOutcomes == {"ok", "missing", "undecodable", "truncated"}

\* Dimensions of the sample images.
FrameSizes == {"512x512", "1024x768"}

\* The images behind the references, by position in the list.
FrameNames == <<"A", "B", "C">>

MaxFrames == 3

\* Every list image_urls of n references.
StitchInputs(n) ==
  { [i \in 1..n |-> [image |-> FrameNames[i], scheme |-> f[i][1], outcome |-> f[i][2],
                     size |-> f[i][3]]]
    : f \in [1..n -> FrameSchemes \X FrameOutcomes \X FrameSizes] }

\* duration=500
duration == 500

\* loop=0
loop == 0

\* Lines 898-920: the reference is appended to frames.
appended(u) == u.scheme \in {"media", "http"} /\ u.outcome \in {"ok", "truncated"}

\* Fault variant of resized_frames: every frame keeps its own dimensions.
unresized_frames(frames) == [i \in 1..Len(frames) |-> frames[i].size]

\* base_size = frames[0].size; resized_frames = [f.resize(base_size) for f in frames]
resized_frames(frames) == [i \in 1..Len(frames) |-> frames[1].size]

\* _create_gif_from_images(image_urls): the animation written, NoGif for None.
\* Encoding the frames and default_storage.save are taken to succeed.
_create_gif_from_images(image_urls) ==
  LET frames == SelectSeq(image_urls, appended)
  IN  IF frames = <<>> THEN NoGif                                  \* line 923
      ELSE IF \E i \in 1..Len(frames) : frames[i].outcome = "truncated"
      THEN NoGif                      \* f.resize raises, caught at line 946
      ELSE [url |-> "/media/generated/animation.gif",
            frames |-> [i \in 1..Len(frames) |-> frames[i].image],
            sizes |-> resized_frames(frames),
            duration |-> duration, loop |-> loop]

\* ---------------------------------------------------------------- image-to-image

\* Fault variant of i2i_step: the strategy is attempted whatever the chain has produced.
i2i_step_unguarded(p, configured, site, fn, ct, url) ==
  IF configured
  THEN { IF got
         THEN [p EXCEPT !.items = <<Item(ct, url)>>, !.calls = @ \o <<Call(site, fn, 1, 1)>>]
         ELSE [p EXCEPT !.calls = @ \o <<Call(site, fn, 1, 0)>>]
         : got \in Attempt }
  ELSE {p}

\* One step of an image-to-image chain: strategy `fn` is attempted when `configured`
\* and the chain has produced nothing so far; a result becomes the one item.
i2i_step(p, configured, site, fn, ct, url) ==
  IF p.items = <<>> /\ configured
  THEN { IF got
         THEN [p EXCEPT !.items = <<Item(ct, url)>>, !.calls = @ \o <<Call(site, fn, 1, 1)>>]
         ELSE [p EXCEPT !.calls = @ \o <<Call(site, fn, 1, 0)>>]
         : got \in Attempt }
  ELSE {p}

\* The files under MEDIA_ROOT a refinement_url can point to.
MediaFiles == {"/media/generated/a.png"}

\* Fault variant of file_exists: the referenced file is taken to be there.
file_exists_always(url) == TRUE

\* file_path.exists() for the path a refinement_url names
file_exists(url) == url \in MediaFiles

\* The refinement branch (lines 1513-1609).
refinement_chain(r, memo, st) ==
  LET p0 == [items |-> <<>>, calls |-> <<>>, memo |-> memo]
      ct == "image_generation"
  IN  IF ~file_exists(r.refinement_url) THEN {p0}
      ELSE
        LET a == i2i_step(p0, st.CLOUDFLARE_ACCOUNT_ID /\ st.CLOUDFLARE_API_TOKEN, "refinement",
                          "_generate_cloudflare_img2img", ct, "/media/generated/cloudflare_img2img.png")
            b == Bind(a, LAMBDA p : i2i_step(p, TRUE, "refinement", "_generate_aihorde_img2img",
                                             ct, "/media/generated/aihorde_img2img.webp"))
            c == Bind(b, LAMBDA p : i2i_step(p, st.NVIDIA_API_KEY, "refinement",
                                             "_generate_nvidia_image_to_image", ct,
                                             "/media/generated/nvidia_img2img.png"))
            d == Bind(c, LAMBDA p : i2i_step(p, st.HUGGINGFACE_API_KEY, "refinement",
                                             "_edit_huggingface_image", ct,
                                             "/media/generated/edited.png"))
            e == Bind(d, LAMBDA p : i2i_step(p, TRUE, "refinement",
                                             "_generate_pollinations_image", ct,
                                             "/media/generated/pollinations.jpg"))
        IN  Bind(e, LAMBDA p :
                   IF p.items # <<>> THEN {p}
                   ELSE \* line 1605: last resort, regular content generation
                        { [items |-> g.items, calls |-> p.calls \o g.calls, memo |-> g.memo]
                          : g \in _generate_real_content_items("image_generation", FALSE, p.memo,
                                                               st, "refinement_last_resort") })

\* The image_transformation branch (lines 1625-1649).
transformation_chain(memo, st) ==
  LET p0 == [items |-> <<>>, calls |-> <<>>, memo |-> memo]
      ct == "image_transformation"
      a == i2i_step(p0, st.CLOUDFLARE_ACCOUNT_ID /\ st.CLOUDFLARE_API_TOKEN, "transformation",
                    "_generate_cloudflare_img2img", ct, "/media/generated/cloudflare_img2img.png")
      b == Bind(a, LAMBDA p : i2i_step(p, TRUE, "transformation", "_generate_aihorde_img2img",
                                       ct, "/media/generated/aihorde_img2img.webp"))
      c == Bind(b, LAMBDA p : i2i_step(p, st.NVIDIA_API_KEY, "transformation",
                                       "_generate_nvidia_image_to_image", ct,
                                       "/media/generated/nvidia_img2img.png"))
  IN  Bind(c, LAMBDA p : i2i_step(p, TRUE, "transformation", "_generate_pollinations_image",
                                  ct, "/media/generated/pollinations.jpg"))

\* The video branch (lines 1612-1622).
video_chain(memo, st) ==
  i2i_step([items |-> <<>>, calls |-> <<>>, memo |-> memo], TRUE, "video",
           "_generate_replicate_video", "video", "/media/generated/replicate_video.mp4")

\* The product-mockup branch (lines 1652-1662) with _generate_product_mockup: a base
\* image from NVIDIA, else Pollinations, then the composite.
mockup_chain(memo, st) ==
  LET p0 == [items |-> <<>>, calls |-> <<>>, memo |-> memo]
      a == i2i_step(p0, st.NVIDIA_API_KEY, "mockup", "_generate_nvidia_image", "base", "base")
      b == Bind(a, LAMBDA p : i2i_step(p, TRUE, "mockup", "_generate_pollinations_image",
                                       "base", "base"))
  IN  Bind(b, LAMBDA p :
             IF p.items = <<>> THEN {p}
             ELSE { IF composed
                    THEN [p EXCEPT !.items = <<Item("image_generation", "/media/mockups/mockup.jpg")>>]
                    ELSE [p EXCEPT !.items = <<>>]
                    : composed \in Attempt })

\* ---------------------------------------------------------------- product mockup

\* ['t-shirt', 'tshirt', 'shirt']
ShirtWords ==
  { <<"t","-","s","h","i","r","t">>, <<"t","s","h","i","r","t">>, <<"s","h","i","r","t">> }

\* ['mug', 'cup']
MugWords == { <<"m","u","g">>, <<"c","u","p">> }

\* ['phone', 'case']
PhoneWords == { <<"p","h","o","n","e">>, <<"c","a","s","e">> }

\* ['hoodie', 'sweater']
HoodieWords == { <<"h","o","o","d","i","e">>, <<"s","w","e","a","t","e","r">> }

\* Prompts handed to _generate_product_mockup.
MockupTexts ==
  { TxtMugMockup,
    TxtNoirPoster,
    <<"m","u","g"," ","a","n","d"," ","s","h","i","r","t">>,                  \* 'mug and shirt'
    <<"p","u","t"," ","t","h","i","s"," ","o","n"," ","m","e","r","c","h">>,  \* 'put this on merch'
    <<"p","h","o","n","e"," ","c","a","s","e">>,                              \* 'phone case'
    <<"H","O","O","D","I","E">>,                                              \* 'HOODIE'
    <<"S","m","u","g"," ","c","a","t">>,                                      \* 'Smug cat'
    <<"r","e","d"," ","s","w","e","a","t","e","r">>,                          \* 'red sweater'
    <<"a"," ","c","u","p">> }                                                 \* 'a cup'

\* any(w in prompt_lower for w in words)
any_in(words, prompt_lower) == \E w \in words : Contains(w, prompt_lower)

\* A product type with its base prompt and its overlay_area (x1, y1, x2, y2 in
\* hundredths of the base image).
Category(product, base_prompt, x1, y1, x2, y2) ==
  [product |-> product, base_prompt |-> base_prompt, area |-> <<x1, y1, x2, y2>>]

TShirtCategory ==
  Category("t-shirt",
           "a blank white t-shirt on a flat surface, studio lighting, product photography",
           25, 20, 75, 65)

MugCategory ==
  Category("mug", "a blank white ceramic coffee mug, studio lighting, product photography",
           20, 25, 80, 75)

PhoneCaseCategory ==
  Category("phone case", "a blank white phone case, studio lighting, product photography",
           15, 10, 85, 90)

HoodieCategory ==
  Category("hoodie",
           "a blank white hoodie on a flat surface, studio lighting, product photography",
           25, 20, 75, 60)

\* Fault variant of product_category: the mug is looked for before the shirt.
product_category_mug_first(prompt) ==
  LET prompt_lower == Lower(prompt)
  IN  IF any_in(MugWords, prompt_lower) THEN MugCategory
      ELSE IF any_in(ShirtWords, prompt_lower) THEN TShirtCategory
      ELSE IF any_in(PhoneWords, prompt_lower) THEN PhoneCaseCategory
      ELSE IF any_in(HoodieWords, prompt_lower) THEN HoodieCategory
      ELSE TShirtCategory

\* Step 1 of _generate_product_mockup (lines 751-772).
product_category(prompt) ==
  LET prompt_lower == Lower(prompt)
  IN  IF any_in(ShirtWords, prompt_lower) THEN TShirtCategory
      ELSE IF any_in(MugWords, prompt_lower) THEN MugCategory
      ELSE IF any_in(PhoneWords, prompt_lower) THEN PhoneCaseCategory
      ELSE IF any_in(HoodieWords, prompt_lower) THEN HoodieCategory
      ELSE TShirtCategory

\* product_category of every sample prompt, computed once.
category_table == [t \in MockupTexts |-> product_category(t)]

\* _generate_product_mockup(prompt, image_file): the set of (category chosen, url
\* returned or None) over the outcomes of the base image and of the compositing.
_generate_product_mockup(prompt, memo, st) ==
  { [category |-> category_table[prompt],
     ret |-> IF x.items = <<>> THEN None ELSE x.items[1].image_url]
    : x \in mockup_chain(memo, st) }

\* Fault variant of content_branch: the video branch does not look at the intent.
content_branch_any_video(it, r, st) ==
  IF it = "refinement" /\ Truthy(r.refinement_url) THEN "refinement"
  ELSE IF st.REPLICATE_API_TOKEN THEN "video"
  ELSE IF it = "image_transformation" /\ r.image_file THEN "transformation"
  ELSE IF it = "product_mockup" /\ r.image_file THEN "mockup"
  ELSE "none"

\* Which branch of step 2 of generate_response runs (lines 1513, 1612, 1625, 1652).
content_branch(it, r, st) ==
  IF it = "refinement" /\ Truthy(r.refinement_url) THEN "refinement"
  ELSE IF it = "video_loop" /\ st.REPLICATE_API_TOKEN THEN "video"
  ELSE IF it = "image_transformation" /\ r.image_file THEN "transformation"
  ELSE IF it = "product_mockup" /\ r.image_file THEN "mockup"
  ELSE "none"

\* Step 2 of generate_response up to line 1662: the set of (items, calls, memo after).
generate_content(it, r, memo, st) ==
  CASE content_branch(it, r, st) = "refinement" -> refinement_chain(r, memo, st)
    [] content_branch(it, r, st) = "video" -> video_chain(memo, st)
    [] content_branch(it, r, st) = "transformation" -> transformation_chain(memo, st)
    [] content_branch(it, r, st) = "mockup" -> mockup_chain(memo, st)
    [] OTHER -> {[items |-> <<>>, calls |-> <<>>, memo |-> memo]}

\* if not content_items and (client or HUGGINGFACE_API_KEY or NVIDIA_API_KEY)
\*    and intent != 'text_only'   (line 1664)
real_content_due(items, cl, it, st) ==
  /\ items = <<>>
  /\ (cl # None \/ st.HUGGINGFACE_API_KEY \/ st.NVIDIA_API_KEY)
  /\ it # "text_only"

\* Fault variant of mock_due: a refinement is not given the mock fallback.
mock_due_unless_refinement(items, it) == items = <<>> /\ it \notin {"text_only", "refinement"}

\* if not content_items and intent != 'text_only'   (line 1668)
mock_due(items, it) == items = <<>> /\ it # "text_only"

\* ---------------------------------------------------------------- response text

NoText == [source |-> "none", pool |-> "none", n |-> 0, options |-> FALSE]

\* [:10] of the history query
recent_limit == 10

\* [-8:] of _generate_gemini_response
gemini_turns == 8

ProviderText(src) == [source |-> src, pool |-> "none", n |-> 0, options |-> FALSE]

\* What a text provider call can return: a reply, an empty reply, or None.
text_results == {IF o = "ok" THEN t ELSE None : o \in Outcomes, t \in {"reply", ""}}

\* Fault variant of _build_mock_response_text: the visual pool yields no sentence.
mock_text_visual_empty(it, content_count) ==
  IF it = "text_only"
  THEN [source |-> "mock", pool |-> "text_only", n |-> 0, options |-> FALSE]
  ELSE [source |-> "none", pool |-> "none", n |-> 0, options |-> FALSE]

\* Fault variant of _build_mock_response_text: the three options follow every
\* sentence of the visual pool.
mock_text_options_always(it, content_count) ==
  IF it = "text_only"
  THEN [source |-> "mock", pool |-> "text_only", n |-> 0, options |-> FALSE]
  ELSE [source |-> "mock", pool |-> "visual", n |-> content_count, options |-> TRUE]

\* _build_mock_response_text(intent, message_text, content_count); the sentence
\* random.choice takes from the pool is not modelled, the pool is.
_build_mock_response_text(it, content_count) ==
  IF it = "text_only"
  THEN [source |-> "mock", pool |-> "text_only", n |-> 0, options |-> FALSE]
  ELSE [source |-> "mock", pool |-> "visual", n |-> content_count,
        options |-> (it = "story_sequence" \/ it = "brand_artwork")]

\* recent_msgs = conversation.messages.order_by('-created_at')[:10], reversed:
\* the positions of the last ten stored messages, oldest first; empty without a
\* session (None and [] are both falsy where the history is used).
chat_history(r, msgs) ==
  IF r.conversation
  THEN LET n == Min(Len(msgs), recent_limit)
       IN  [k \in 1..n |-> Len(msgs) - n + k]
  ELSE <<>>

\* _get_context_prompt(conversation): the styles its sentence names, empty for
\* the empty string.
_get_context_prompt(r, ctx) ==
  IF r.conversation THEN Get(ctx, "preferred_styles", <<>>) ELSE <<>>

\* history[-8:]
last_turns(history) ==
  LET n == Min(Len(history), gemini_turns)
  IN  [k \in 1..n |-> history[Len(history) - n + k]]

\* What _generate_nvidia_text puts into its payload: the system prompt, the
\* whole history handed over, the user prompt; no context fragment is passed.
nvidia_messages(history) ==
  [fn |-> "_generate_nvidia_text", history |-> history, context |-> <<>>]

\* full_prompt of _generate_gemini_response: the system prompt, the context
\* fragment, the last eight entries of the history, the user request.
full_prompt(context_prompt, history) ==
  [fn |-> "_generate_gemini_response", history |-> last_turns(history),
   context |-> context_prompt]

\* Step 3 of generate_response (lines 1686-1702): the set of
\* (response_text, calls, memo after).
generate_text(it, cl, n_items, memo, st, history, context_prompt) ==
  LET p0 == [text |-> None, calls |-> <<>>, prompts |-> <<>>, memo |-> memo]
      nvidia(p) ==
        IF (cl # None \/ st.NVIDIA_API_KEY) /\ st.NVIDIA_API_KEY
        THEN { [p EXCEPT !.text = t,
                         !.calls = @ \o <<Call("text", "_generate_nvidia_text", 1,
                                               IF Truthy(t) THEN 1 ELSE 0)>>,
                         !.prompts = @ \o <<nvidia_messages(history)>>]
               : t \in text_results }
        ELSE {p}
      gemini(p) ==
        IF (cl # None \/ st.NVIDIA_API_KEY) /\ ~Truthy(p.text) /\ cl # None
        THEN Bind(get_genai_client(p.memo, st),
                  LAMBDA g :
                    IF g.ret = None THEN {[p EXCEPT !.memo = g.memo, !.text = None]}
                    ELSE { [p EXCEPT !.memo = g.memo, !.text = t,
                                     !.calls = @ \o <<Call("text", "_generate_gemini_response", 1,
                                                           IF Truthy(t) THEN 1 ELSE 0)>>,
                                     !.prompts = @ \o <<full_prompt(context_prompt, history)>>]
                           : t \in text_results })
        ELSE {p}
      final(p) ==
        [response_text |->
           IF Truthy(p.text)
           THEN ProviderText(IF p.calls[Len(p.calls)].fn = "_generate_nvidia_text"
                             THEN "nvidia" ELSE "gemini")
           ELSE _build_mock_response_text(it, n_items),
         calls |-> p.calls, prompts |-> p.prompts, memo |-> p.memo]
  IN  {final(p) : p \in Bind(nvidia(p0), gemini)}

\* ---------------------------------------------------------------- stored rows

\* The fields of chat.models.Message.
MessageFields == {"id", "conversation", "role", "content", "message_type", "created_at"}

\* Message.objects.create(**kwargs) raises TypeError on a keyword that is no field.
create_raises(kwargs) == ~(kwargs \subseteq MessageFields)

\* A Message row; contents is the number of its GeneratedContent rows.
Row(role, message_type, content, contents) ==
  [role |-> role, message_type |-> message_type, content |-> content, contents |-> contents]

\* Conversations as they stand when a request arrives: empty, or one exchange
\* whose assistant message carries one of MESSAGE_TYPE_CHOICES.
InitialHistories ==
  { <<>>,
    <<Row("user", "text", TxtHello, 0), Row("assistant", "text", NoText, 0)>>,
    <<Row("user", "text", TxtNoirPoster, 0), Row("assistant", "poster_design", NoText, 4)>> }

\* ---------------------------------------------------------------- requests

Modes == {None, "image", "video"}

\* Every call generate_response(message_text, conversation, image_file, mode,
\* refinement_url) over the sample values.
Requests ==
  [text : Texts \ {TxtMugMockup}, conversation : BOOLEAN, image_file : BOOLEAN, mode : Modes,
   refinement_url : {None, "/media/generated/a.png"}]

Req(t, c, i, m, u) ==
  [text |-> t, conversation |-> c, image_file |-> i, mode |-> m, refinement_url |-> u]

\* One call per branch of generate_response.
ChainRequests ==
  { Req(TxtNoirPoster, TRUE, FALSE, None, "/media/generated/a.png"),
    Req(TxtNoirPoster, TRUE, FALSE, None, "/media/generated/gone.png"),
    Req(TxtEmpty, FALSE, TRUE, None, None),
    Req(TxtVideoClip, FALSE, FALSE, "video", None),
    Req(TxtNoirPoster, TRUE, FALSE, None, None),
    Req(TxtHello, FALSE, FALSE, None, None),
    Req(TxtHello, FALSE, FALSE, "image", None),
    Req(TxtYes, TRUE, FALSE, None, None),
    Req(TxtMugMockup, FALSE, FALSE, None, None),
    Req(TxtMugMockup, FALSE, TRUE, None, None) }

NoReq == Req(<<>>, FALSE, FALSE, None, None)

NoResult ==
  [intent |-> None, confidence |-> 0, response_text |-> NoText, content_items |-> <<>>,
   message_type |-> None]

NoHttp ==
  [endpoint |-> None, status |-> 0, content |-> <<>>, conversation_id |-> None,
   image_file |-> FALSE, message_type |-> None]

SettingNames ==
  {"GEMINI_API_KEY", "NVIDIA_API_KEY", "HUGGINGFACE_API_KEY", "CLOUDFLARE_ACCOUNT_ID",
   "CLOUDFLARE_API_TOKEN", "REPLICATE_API_TOKEN"}

\* Every combination of configured credentials.
AllSettings == [SettingNames -> BOOLEAN]

\* No credentials, and the language-understanding provider only.
IntentSettings ==
  { [k \in SettingNames |-> FALSE], [k \in SettingNames |-> k = "GEMINI_API_KEY"] }

\* Workers that serve requests for the one stored conversation.
Workers == {"w1", "w2", "w3"}

\* No worker has loaded the conversation.
NoSessions == [w \in Workers |-> [loaded |-> FALSE, user_context |-> EmptyDict]]

NoStitch == [image_urls |-> <<>>, called |-> FALSE, ret |-> NoGif]

\* _generate_product_mockup has not been called.
NoCategory == [product |-> None, base_prompt |-> None, area |-> <<0, 0, 0, 0>>]

NoMockup == [prompt |-> <<>>, called |-> FALSE, category |-> NoCategory, ret |-> None]

\* No asynchronous provider has been called.
NoJob ==
  [fn |-> None, pc |-> "idle", elapsed |-> 0, polls |-> 0, cancels |-> 0, status |-> None,
   done_seen |-> FALSE, ret |-> None]

\* Threads of the server process.
Threads == {"t1", "t2", "t3"}

\* No thread is inside get_genai_client.
NoThreads ==
  [t \in Threads |->
    [pc |-> "out", made |-> None, ret |-> None, calls |-> 0, built |-> 0, failed |-> 0]]

\* ---------------------------------------------------------------- actions

InitCall(S, H) ==
  /\ settings \in S
  /\ _client = None
  /\ user_context = EmptyDict
  /\ messages \in H
  /\ pc = "idle"
  /\ via = None
  /\ req = NoReq
  /\ target = 0
  /\ intent = None
  /\ confidence = 0
  /\ cls = NoCls
  /\ client = None
  /\ content_items = <<>>
  /\ response_text = NoText
  /\ calls = <<>>
  /\ prompts = <<>>
  /\ result = NoResult
  /\ http = NoHttp

\* The state after start-up, with no worker holding a session and no helper called.
InitWith(S, H) ==
  /\ InitCall(S, H)
  /\ sessions = NoSessions
  /\ stitch = NoStitch
  /\ mockup = NoMockup
  /\ job = NoJob
  /\ threads = NoThreads

\* generate_response is entered with arguments r.
Enter(r, caller, t) ==
  /\ pc \in {"idle", "responded"}
  /\ http' = NoHttp
  /\ req' = r
  /\ via' = caller
  /\ target' = t
  /\ pc' = "intent"
  /\ intent' = None
  /\ confidence' = 0
  /\ cls' = NoCls
  /\ client' = None
  /\ content_items' = <<>>
  /\ response_text' = NoText
  /\ calls' = <<>>
  /\ prompts' = <<>>
  /\ result' = NoResult

\* A direct call of the entry point.
Orchestrate(r) ==
  /\ Enter(r, "direct", 0)
  /\ UNCHANGED <<settings, job, threads, sessions, stitch, mockup, _client, user_context, messages>>

\* Fault variant of invalid_request: only the conversation id is required.
invalid_without_id(cid, content, image_file) == cid = None

\* if not conversation_id or (not content and not image_file):
invalid_request(cid, content, image_file) ==
  cid = None \/ (content = <<>> /\ ~image_file)

\* views.send_message (lines 189-284).  raw is the posted content, cid the posted
\* conversation_id ("c1" is the stored conversation).
SendMessage(raw, cid, image_file) ==
  LET content == Strip(raw)
      status ==
        IF invalid_request(cid, content, image_file) THEN 400
        ELSE IF cid # "c1" THEN 404
        ELSE IF create_raises({"conversation", "role", "content", "message_type", "image"})
        THEN 500
        ELSE 200
  IN  /\ pc \in {"idle", "responded"}
      /\ status # 200
      /\ http' = [endpoint |-> "send_message", status |-> status, content |-> content,
                  conversation_id |-> cid, image_file |-> image_file, message_type |-> None]
      /\ UNCHANGED <<settings, prompts, job, threads, sessions, stitch, mockup, _client, user_context, messages, pc, via, req, target, intent,
                     confidence, cls, client, content_items, response_text, calls, result>>

\* views.regenerate_message (lines 287-316) for assistant message i: the old
\* generated contents are deleted and generate_response(user_message.content) is called.
RegenerateMessage(i) ==
  /\ i \in 1..Len(messages)
  /\ messages[i].role = "assistant"
  /\ \E j \in 1..(i - 1) :
       /\ messages[j].role = "user"
       /\ \A k \in (j + 1)..(i - 1) : messages[k].role # "user"
       /\ Enter(Req(messages[j].content, FALSE, FALSE, None, None), "regenerate", i)
  /\ messages' = [messages EXCEPT ![i].contents = 0]
  /\ UNCHANGED <<settings, job, threads, sessions, stitch, mockup, _client, user_context>>

\* Step 0 (lines 1459-1500).
ResolveIntent ==
  /\ pc = "intent"
  /\ \E x \in resolve_intent(req, messages, _client, settings) :
       /\ intent' = x.intent
       /\ confidence' = x.confidence
       /\ cls' = x.cls
       /\ _client' = x.memo
  /\ pc' = "context"
  /\ UNCHANGED <<settings, prompts, job, threads, sessions, stitch, mockup, user_context, messages, via, req, target, client, content_items,
                 response_text, calls, result, http>>

\* Step 1 (lines 1502-1510): the context update, then client = get_genai_client().
UpdateContext ==
  /\ pc = "context"
  /\ IF req.conversation
     THEN user_context' \in _update_user_context(user_context, req.text)
     ELSE user_context' = user_context
  /\ \E g \in get_genai_client(_client, settings) :
       /\ _client' = g.memo
       /\ client' = g.ret
  /\ pc' = "content"
  /\ UNCHANGED <<settings, prompts, job, threads, sessions, stitch, mockup, messages, via, req, target, intent, confidence, cls, content_items,
                 response_text, calls, result, http>>

\* Step 2, the branch on the intent (lines 1512-1662).
GenerateContent ==
  /\ pc = "content"
  /\ \E x \in generate_content(intent, req, _client, settings) :
       /\ content_items' = x.items
       /\ calls' = calls \o x.calls
       /\ _client' = x.memo
  /\ pc' = "real"
  /\ UNCHANGED <<settings, prompts, job, threads, sessions, stitch, mockup, user_context, messages, via, req, target, intent, confidence, cls,
                 client, response_text, result, http>>

\* Lines 1664-1665.
RealContent ==
  /\ pc = "real"
  /\ IF real_content_due(content_items, client, intent, settings)
     THEN \E x \in _generate_real_content_items(intent, req.image_file, _client, settings,
                                                "real_content") :
            /\ content_items' = x.items
            /\ calls' = calls \o x.calls
            /\ _client' = x.memo
     ELSE UNCHANGED <<content_items, calls, _client>>
  /\ pc' = "mock"
  /\ UNCHANGED <<settings, prompts, job, threads, sessions, stitch, mockup, user_context, messages, via, req, target, intent, confidence, cls,
                 client, response_text, result, http>>

\* Lines 1667-1669.
MockContent ==
  /\ pc = "mock"
  /\ IF mock_due(content_items, intent)
     THEN \E x \in _generate_mock_content_items(intent) :
            /\ content_items' = x.items
            /\ calls' = calls \o x.calls
     ELSE UNCHANGED <<content_items, calls>>
  /\ pc' = "text"
  /\ UNCHANGED <<settings, prompts, job, threads, sessions, stitch, mockup, _client, user_context, messages, via, req, target, intent,
                 confidence, cls, client, response_text, result, http>>

\* Step 3 (lines 1671-1702).
GenerateText ==
  /\ pc = "text"
  /\ \E x \in generate_text(intent, client, Len(content_items), _client, settings,
                             chat_history(req, messages),
                             _get_context_prompt(req, user_context)) :
       /\ response_text' = x.response_text
       /\ calls' = calls \o x.calls
       /\ prompts' = prompts \o x.prompts
       /\ _client' = x.memo
  /\ pc' = "return"
  /\ UNCHANGED <<settings, job, threads, sessions, stitch, mockup, user_context, messages, via, req, target, intent, confidence, cls,
                 client, content_items, result, http>>

\* 'confidence': confidence or 1.0
returned_confidence(c) == IF c = 0 THEN Frac(1, 1) ELSE c

\* Lines 1704-1710: the result is handed to the caller and the locals of the call
\* are gone; for regenerate_message the rest of the view follows (lines 318-347).
Return ==
  /\ pc = "return"
  /\ result' = [intent |-> intent, confidence |-> returned_confidence(confidence),
                response_text |-> response_text, content_items |-> content_items,
                message_type |-> intent]
  /\ IF via = "regenerate"
     THEN /\ messages' = [messages EXCEPT ![target].content = response_text,
                                          ![target].message_type = intent,
                                          ![target].contents = Len(content_items)]
          /\ http' = [endpoint |-> "regenerate_message", status |-> 200, content |-> <<>>,
                      conversation_id |-> "c1", image_file |-> FALSE, message_type |-> intent]
     ELSE UNCHANGED <<messages, http>>
  /\ pc' = "responded"
  /\ req' = NoReq
  /\ via' = None
  /\ target' = 0
  /\ intent' = None
  /\ confidence' = 0
  /\ cls' = NoCls
  /\ client' = None
  /\ content_items' = <<>>
  /\ response_text' = NoText
  /\ calls' = <<>>
  /\ prompts' = <<>>
  /\ UNCHANGED <<settings, job, threads, sessions, stitch, mockup, _client, user_context>>

\* The steps of a call of generate_response that is under way.
Step ==
  \/ ResolveIntent
  \/ UpdateContext
  \/ GenerateContent
  \/ RealContent
  \/ MockContent
  \/ GenerateText
  \/ Return

Init == InitWith(IntentSettings, InitialHistories)

\* Direct calls of generate_response over every combination of arguments.
Next ==
  \/ \E r \in Requests : Orchestrate(r)
  \/ Step

Spec == Init /\ [][Next]_vars

\* A session whose last assistant message carried a poster.
PosterHistory ==
  <<Row("user", "text", TxtNoirPoster, 0), Row("assistant", "poster_design", NoText, 4)>>

InitChains == InitWith(AllSettings, {PosterHistory})

\* Direct calls, one per branch, under every combination of credentials.
NextChains ==
  \/ \E r \in ChainRequests : Orchestrate(r)
  \/ Step

SpecChains == InitChains /\ [][NextChains]_vars

\* What a browser posts as content and as conversation_id.
PostedTexts == {TxtYes, TxtEmpty}

PostedIds == {None, "c1", "c9"}

\* Direct calls on what a browser posts, with and without a session.
ViewRequests == {Req(t, c, FALSE, None, None) : t \in PostedTexts, c \in BOOLEAN}

\* The endpoints of views.py next to direct calls with and without a session.
NextViews ==
  \/ \E raw \in PostedTexts, cid \in PostedIds, f \in BOOLEAN : SendMessage(raw, cid, f)
  \/ \E i \in 1..Len(messages) : RegenerateMessage(i)
  \/ \E r \in ViewRequests : Orchestrate(r)
  \/ Step

SpecViews == Init /\ [][NextViews]_vars

InitClassify == InitWith(IntentSettings, {<<>>})

\* Direct calls without session, image, mode or target: the plain classification
\* of every sample text.
ClassifyRequests == {Req(t, FALSE, FALSE, None, None) : t \in AllTexts}

NextClassify ==
  \/ \E r \in ClassifyRequests : Orchestrate(r)
  \/ Step

SpecClassify == InitClassify /\ [][NextClassify]_vars

\* No credentials, an empty session.
InitContext == InitWith({[k \in SettingNames |-> FALSE]}, {<<>>})

\* Texts fed to the context memory: two with a style each, one with none.
ContextTexts == {TxtNoirPoster, TxtMugMockup, TxtHello}

\* Direct calls with and without a session.
ContextRequests == {Req(t, c, FALSE, None, None) : t \in ContextTexts, c \in BOOLEAN}

NextContext ==
  \/ \E r \in ContextRequests : Orchestrate(r)
  \/ Step

SpecContext == InitContext /\ [][NextContext]_vars

\* A worker takes up a request for the conversation: it loads the stored row into
\* a Conversation instance of its own (views.py:218).
Load(w) ==
  /\ pc = "idle"
  /\ sessions' = [sessions EXCEPT ![w] = [loaded |-> TRUE, user_context |-> user_context]]
  /\ UNCHANGED <<settings, prompts, job, threads, stitch, mockup, _client, user_context, messages, pc, via, req,
                 target, intent, confidence, cls, client, content_items, response_text, calls,
                 result, http>>

\* Step 1 of generate_response in worker w (line 1504): _update_user_context reads
\* the styles of the worker's instance, adds the found ones and, when any was
\* found, writes the instance back with conversation.save().
Update(w, t) ==
  /\ pc = "idle"
  /\ sessions[w].loaded
  /\ \E updated \in _update_user_context(sessions[w].user_context, t) :
       /\ sessions' = [sessions EXCEPT ![w].user_context = updated]
       /\ user_context' = IF styles_table[t] = {} THEN user_context ELSE updated
  /\ UNCHANGED <<settings, prompts, job, threads, stitch, mockup, _client, messages, pc, via, req, target, intent,
                 confidence, cls, client, content_items, response_text, calls, result, http>>

\* The workers serving requests for the same conversation, interleaved at will.
NextRace ==
  \/ \E w \in Workers : Load(w)
  \/ \E w \in Workers, t \in ContextTexts : Update(w, t)

SpecRace == InitContext /\ [][NextRace]_vars

\* _create_gif_from_images is called on the list held in stitch.
Stitch ==
  /\ ~stitch.called
  /\ stitch' = [stitch EXCEPT !.called = TRUE,
                              !.ret = _create_gif_from_images(stitch.image_urls)]
  /\ UNCHANGED <<settings, prompts, job, threads, sessions, mockup, _client, user_context, messages, pc, via, req,
                 target, intent, confidence, cls, client, content_items, response_text, calls,
                 result, http>>

\* The stitcher is about to be called on any of the sample lists.
InitStitch ==
  /\ InitCall({[k \in SettingNames |-> FALSE]}, {<<>>})
  /\ sessions = NoSessions
  /\ mockup = NoMockup
  /\ \E n \in 0..MaxFrames :
       stitch \in {[image_urls |-> u, called |-> FALSE, ret |-> NoGif] : u \in StitchInputs(n)}
  /\ job = NoJob
  /\ threads = NoThreads

SpecStitch == InitStitch /\ [][Stitch]_vars

\* _generate_product_mockup is called on the prompt held in mockup.
Mockup ==
  /\ ~mockup.called
  /\ \E x \in _generate_product_mockup(mockup.prompt, _client, settings) :
       mockup' = [mockup EXCEPT !.called = TRUE, !.category = x.category, !.ret = x.ret]
  /\ UNCHANGED <<settings, prompts, job, threads, sessions, stitch, _client, user_context, messages, pc, via, req,
                 target, intent, confidence, cls, client, content_items, response_text, calls,
                 result, http>>

\* The compositor is about to be called on any of the sample prompts, under
\* every combination of credentials.
InitMockup ==
  /\ InitCall(AllSettings, {<<>>})
  /\ sessions = NoSessions
  /\ stitch = NoStitch
  /\ mockup \in {[NoMockup EXCEPT !.prompt = t] : t \in MockupTexts}
  /\ job = NoJob
  /\ threads = NoThreads

SpecMockup == InitMockup /\ [][Mockup]_vars

\* ---------------------------------------------------------------- polling

\* max_wait = 120 and poll_interval = 3 of _generate_aihorde_img2img
horde_max_wait == 120

poll_interval == 3

\* max_wait = 300 and the 5 of _time.sleep(5), waited += 5 of _generate_replicate_video
replicate_max_wait == 300

replicate_interval == 5

\* Everything but job.
NotJob ==
  <<settings, prompts, threads, sessions, stitch, mockup, _client, user_context, messages, pc, via, req,
    target, intent, confidence, cls, client, content_items, response_text, calls, result, http>>

\* Fault variant of horde_may_poll: the ceiling itself still polls.
horde_may_poll_at_ceiling(elapsed) == elapsed <= horde_max_wait

\* while elapsed < max_wait:   (line 436)
horde_may_poll(elapsed) == elapsed < horde_max_wait

\* Fault variant of replicate_may_poll: the status is not looked at.
replicate_may_poll_any_status(status, waited) == waited < replicate_max_wait

\* while status not in ("succeeded", "failed", "canceled") and waited < max_wait:
replicate_may_poll(status, waited) ==
  status \notin {"succeeded", "failed", "canceled"} /\ waited < replicate_max_wait

\* The call ends with return value r.
Finished(r) == [job EXCEPT !.pc = "returned", !.ret = r]

\* _generate_aihorde_img2img up to the polling loop (lines 350-429): the job is
\* submitted; a transport error, a status other than 200/202 or an answer without
\* id ends the call with None.
HordeSubmit ==
  /\ job.pc = "idle"
  /\ \E o \in Outcomes :
       job' = IF o = "ok"
              THEN [NoJob EXCEPT !.fn = "_generate_aihorde_img2img", !.pc = "polling",
                                 !.status = "queued"]
              ELSE [NoJob EXCEPT !.fn = "_generate_aihorde_img2img", !.pc = "returned"]
  /\ UNCHANGED NotJob

\* The answers of a status request that report the job as done: the image is
\* downloaded, there is none to download (no generations, no img, a download
\* answered with another status than 200), or the download raises a
\* RequestException.
HordeDone == {"done", "done_empty", "done_download_error"}

\* One turn of the loop of lines 436-491: sleep, one status request.  The poll
\* fails (not 200, RequestException), the job waits, is faulted, is done (see
\* HordeDone), or the answer raises another exception.  The download of line
\* 463 is inside the try of the poll: its RequestException is caught at line
\* 489 and the loop continues.
HordePoll ==
  /\ job.fn = "_generate_aihorde_img2img"
  /\ job.pc = "polling"
  /\ horde_may_poll(job.elapsed)
  /\ \E o \in {"poll_error", "waiting", "faulted", "raised"} \cup HordeDone :
       LET j == [job EXCEPT !.elapsed = @ + poll_interval, !.polls = @ + 1, !.status = o,
                            !.done_seen = @ \/ o \in HordeDone]
       IN  job' = CASE o \in {"poll_error", "waiting", "done_download_error"} -> j
                    [] o = "done" ->
                         [j EXCEPT !.pc = "returned", !.ret = "/media/generated/aihorde_img2img.webp"]
                    [] OTHER -> [j EXCEPT !.pc = "returned"]
  /\ UNCHANGED NotJob

\* Lines 493-499: the loop has run out; the job is canceled (errors of the
\* cancel request are swallowed) and None is returned.
HordeTimeout ==
  /\ job.fn = "_generate_aihorde_img2img"
  /\ job.pc = "polling"
  /\ ~horde_may_poll(job.elapsed)
  /\ job' = [job EXCEPT !.cancels = @ + 1, !.pc = "returned"]
  /\ UNCHANGED NotJob

\* _generate_replicate_video up to the polling loop (lines 631-679): the prediction
\* is created; its status may already be terminal ("Prefer: wait").
ReplicateCreate ==
  /\ job.pc = "idle"
  /\ \E o \in Outcomes, st \in {"starting", "succeeded", "failed"} :
       job' = IF o = "ok"
              THEN [NoJob EXCEPT !.fn = "_generate_replicate_video", !.pc = "polling",
                                 !.status = st]
              ELSE [NoJob EXCEPT !.fn = "_generate_replicate_video", !.pc = "returned"]
  /\ UNCHANGED NotJob

\* One turn of the loop of lines 683-693: sleep, one status request; a status
\* other than 200 breaks the loop, an exception ends the call with None.
ReplicatePoll ==
  /\ job.fn = "_generate_replicate_video"
  /\ job.pc = "polling"
  /\ replicate_may_poll(job.status, job.elapsed)
  /\ \E o \in {"processing", "succeeded", "failed", "canceled", "poll_error", "raised"} :
       LET j == [job EXCEPT !.elapsed = @ + replicate_interval, !.polls = @ + 1]
       IN  job' = CASE o = "poll_error" -> [j EXCEPT !.pc = "left"]
                    [] o = "raised" -> [j EXCEPT !.pc = "returned"]
                    [] OTHER -> [j EXCEPT !.status = o]
  /\ UNCHANGED NotJob

\* Lines 695-735: after the loop; None unless the status is "succeeded" and the
\* output can be downloaded.
ReplicateFinish ==
  /\ job.fn = "_generate_replicate_video"
  /\ \/ job.pc = "left"
     \/ job.pc = "polling" /\ ~replicate_may_poll(job.status, job.elapsed)
  /\ \E o \in Outcomes :
       job' = IF job.status = "succeeded" /\ o = "ok"
              THEN Finished("/media/generated/replicate_video.mp4")
              ELSE Finished(None)
  /\ UNCHANGED NotJob

\* One call of an asynchronous provider, its polling loop turn by turn.
NextPoll ==
  \/ HordeSubmit
  \/ HordePoll
  \/ HordeTimeout
  \/ ReplicateCreate
  \/ ReplicatePoll
  \/ ReplicateFinish

SpecPoll == InitContext /\ [][NextPoll]_vars

\* ---------------------------------------------------------------- lazy client, thread by thread

\* Calls of get_genai_client one thread makes.
MaxClientCalls == 2

\* The object genai.Client(api_key=...) builds in each thread.
HandleOf == [t \in Threads |-> "genai.Client@" \o t]

Handles == {HandleOf[t] : t \in Threads}

\* Everything but the memo and the threads.
NotClient ==
  <<settings, prompts, job, sessions, stitch, mockup, user_context, messages, pc, via, req, target,
    intent, confidence, cls, client, content_items, response_text, calls, result, http>>

\* Fault variant of memoized: whatever the memo holds is returned.
memoized_always(c) == TRUE

\* Fault variant of memoized: the memo is never consulted.
memoized_never(c) == FALSE

\* if _client:
memoized(c) == c # None

\* Entry of get_genai_client up to the try statement: the memo test and the
\* credential test.
ClientEnter(t) ==
  /\ threads[t].pc \in {"out", "done"}
  /\ threads[t].calls < MaxClientCalls
  /\ threads' = [threads EXCEPT ![t] =
       IF memoized(_client)
         THEN [@ EXCEPT !.pc = "done", !.ret = _client, !.made = None, !.calls = @ + 1]
       ELSE IF ~settings.GEMINI_API_KEY
         THEN [@ EXCEPT !.pc = "done", !.ret = None, !.made = None, !.calls = @ + 1]
       ELSE [@ EXCEPT !.pc = "try", !.ret = None, !.made = None, !.calls = @ + 1]]
  /\ UNCHANGED <<_client, NotClient>>

\* from google import genai; genai.Client(api_key=...): the handle is built, or
\* one of the two except clauses returns None.
ClientConstruct(t) ==
  /\ threads[t].pc = "try"
  /\ \E o \in {"ok", "ImportError", "Exception"} :
       threads' = [threads EXCEPT ![t] =
         IF o = "ok"
           THEN [@ EXCEPT !.pc = "store", !.made = HandleOf[t], !.built = @ + 1]
           ELSE [@ EXCEPT !.pc = "done", !.ret = None, !.failed = @ + 1]]
  /\ UNCHANGED <<_client, NotClient>>

\* _client = <the handle built>
ClientStore(t) ==
  /\ threads[t].pc = "store"
  /\ _client' = threads[t].made
  /\ threads' = [threads EXCEPT ![t].pc = "return"]
  /\ UNCHANGED NotClient

\* return _client: the global is read again.
ClientReturn(t) ==
  /\ threads[t].pc = "return"
  /\ threads' = [threads EXCEPT ![t] = [@ EXCEPT !.pc = "done", !.ret = _client]]
  /\ UNCHANGED <<_client, NotClient>>

\* Threads of one process calling get_genai_client, statement by statement.
NextClient ==
  \/ \E t \in Threads : ClientEnter(t)
  \/ \E t \in Threads : ClientConstruct(t)
  \/ \E t \in Threads : ClientStore(t)
  \/ \E t \in Threads : ClientReturn(t)

SpecClient == InitWith(IntentSettings, {<<>>}) /\ [][NextClient]_vars

\* ---------------------------------------------------------------- stored message types

\* MESSAGE_TYPE_CHOICES of chat.models.Message.
MESSAGE_TYPE_CHOICES ==
  {"text", "image_generation", "image_transformation", "poster_design", "vision_board",
   "brand_artwork", "video_loop", "story_sequence", "mixed"}

\* One stored exchange; the assistant message carries any of the message types
\* the model declares.
StoredHistories ==
  { <<Row("user", "text", TxtNoirPoster, 0), Row("assistant", mt, NoText, 1)>>
      : mt \in MESSAGE_TYPE_CHOICES }

\* Direct calls with and without session, image and mode, on a short
\* acknowledgement and on a poster request.
StoredRequests ==
  {Req(t, c, i, m, None) : t \in {TxtYes, TxtNoirPoster}, c \in BOOLEAN, i \in BOOLEAN, m \in Modes}

NextStored ==
  \/ \E r \in StoredRequests : Orchestrate(r)
  \/ Step

\* A stored conversation of n messages, user and assistant in turn.
History(n) ==
  [k \in 1..n |->
     IF k % 2 = 1 THEN Row("user", "text", TxtNoirPoster, 0)
                  ELSE Row("assistant", "poster_design", NoText, 1)]

\* Conversations shorter than, as long as and longer than what the text
\* providers are given.
LongHistories == {History(n) : n \in {0, 3, 8, 9, 12}}

TextRequests ==
  {Req(t, c, FALSE, None, None) : t \in {TxtNoirPoster, TxtHello, TxtYes}, c \in BOOLEAN}

\* Direct calls with and without a session on conversations of several lengths.
NextText ==
  \/ \E r \in TextRequests : Orchestrate(r)
  \/ Step

\* The credentials of the two text providers in every combination, no other
\* credential.
TextSettings ==
  {s \in AllSettings : \A k \in SettingNames \ {"GEMINI_API_KEY", "NVIDIA_API_KEY"} : ~s[k]}

SpecStored == InitWith(TextSettings, StoredHistories) /\ [][NextStored]_vars

SpecText == InitWith(TextSettings, LongHistories) /\ [][NextText]_vars

\* ---------------------------------------------------------------- stored contexts

\* What the user_context of a conversation may hold when a request arrives:
\* nothing, a key the application never writes, styles, or both.
StoredContexts ==
  { EmptyDict,
    [k \in {"language"} |-> <<"en">>],
    [k \in {"preferred_styles"} |-> <<"noir">>],
    [k \in {"language", "preferred_styles"} |->
       IF k = "language" THEN <<"en">> ELSE <<"vintage">>] }

InitStored ==
  /\ settings \in IntentSettings
  /\ _client = None
  /\ user_context \in StoredContexts
  /\ messages = <<>>
  /\ pc = "idle"
  /\ via = None
  /\ req = NoReq
  /\ target = 0
  /\ intent = None
  /\ confidence = 0
  /\ cls = NoCls
  /\ client = None
  /\ content_items = <<>>
  /\ response_text = NoText
  /\ calls = <<>>
  /\ prompts = <<>>
  /\ result = NoResult
  /\ http = NoHttp
  /\ sessions = NoSessions
  /\ stitch = NoStitch
  /\ mockup = NoMockup
  /\ job = NoJob
  /\ threads = NoThreads

\* Direct calls with and without a session on conversations whose stored
\* context is not empty.
SpecFrame == InitStored /\ [][NextContext]_vars

\* A worker that has entered generate_response runs it to its return statement.
Fairness == WF_vars(Step)

\* No credentials at all, and every credential configured.
ExtremeSettings == {[k \in SettingNames |-> FALSE], [k \in SettingNames |-> TRUE]}

InitLive == InitWith(ExtremeSettings, {PosterHistory})

SpecLive == InitLive /\ [][NextChains]_vars /\ Fairness

\* ---------------------------------------------------------------- properties

\* The intent of the call under way is resolved and its locals are live.
Resolved == pc \in {"context", "content", "real", "mock", "text", "return"}

\* The call under way has finished step 2 (artifact generation, mock included).
ContentDone == pc \in {"text", "return"}

NoRefinementTarget == req.refinement_url \in {None, ""}

ShortAcknowledgement == RStrip(Lower(Strip(req.text)), {".", "!"}) \in SHORT_FOLLOWUPS

Providers ==
  {"_generate_nvidia_text", "_generate_gemini_response", "_generate_nvidia_image",
   "_generate_imagen_images_batch", "_generate_huggingface_image",
   "_generate_pollinations_image", "_edit_huggingface_image", "_generate_cloudflare_img2img",
   "_generate_aihorde_img2img", "_generate_nvidia_image_to_image", "_generate_replicate_video"}

MockUrl == "https://picsum.photos/seed"

\* C1: whatever the provider configuration and the provider outcomes, a call whose
\* resolved intent is not text_only holds at least one artifact once step 2 is
\* over, and the result it returns holds at least one artifact.
GuaranteedArtifact ==
  /\ (ContentDone /\ intent # "text_only") => Len(content_items) >= 1
  /\ (pc = "responded" /\ result.intent # "text_only") => Len(result.content_items) >= 1

\* Every credential is configured, at least three providers were attempted, each
\* yielded nothing, and the call is about to return the mock stills.
AllProvidersFailed ==
  /\ pc = "return"
  /\ intent # "text_only"
  /\ \A k \in SettingNames : settings[k]
  /\ Cardinality({calls[i].fn : i \in 1..Len(calls)} \cap Providers) >= 3
  /\ \A i \in 1..Len(calls) : calls[i].ok = 0
  /\ Len(content_items) = mock_count
  /\ \A i \in 1..Len(content_items) : content_items[i].image_url = MockUrl

\* The result is complete: a resolved intent, a confidence, a response text that
\* is not empty and a list of artifacts.
CompleteResult ==
  /\ result.intent # None
  /\ result.message_type = result.intent
  /\ result.confidence \in 1..Frac(1, 1)
  /\ result.response_text.source \in {"nvidia", "gemini", "mock"}
  /\ Len(result.content_items) \in 0..count

\* C2: under every mix of provider outcomes a call of generate_response can always
\* take its next step, a call that was entered reaches 'responded', and what it
\* returns there is a complete result.
AlwaysResponds ==
  /\ [](pc \notin {"idle", "responded"} => ENABLED Step)
  /\ [](pc = "responded" => CompleteResult)
  /\ (pc = "intent" ~> pc = "responded")

\* Every credential was configured, every provider failed, and the caller was
\* handed the templated text with the mock stills.
DegradedButComplete ==
  /\ pc = "responded"
  /\ \A k \in SettingNames : settings[k]
  /\ result.intent \notin {"text_only", "refinement"}
  /\ result.response_text.source = "mock"
  /\ result.response_text.n = mock_count
  /\ result.content_items[1].image_url = MockUrl

\* What a provider's artifact looks like in the result.
UrlOf(fn) ==
  CASE fn = "_generate_nvidia_image" -> "/media/generated/nvidia.png"
    [] fn = "_generate_imagen_images_batch" -> "/media/generated/imagen.png"
    [] fn = "_generate_huggingface_image" -> "/media/generated/huggingface.png"
    [] fn = "_generate_pollinations_image" -> "/media/generated/pollinations.jpg"
    [] fn = "_edit_huggingface_image" -> "/media/generated/edited.png"
    [] fn = "_generate_cloudflare_img2img" -> "/media/generated/cloudflare_img2img.png"
    [] fn = "_generate_aihorde_img2img" -> "/media/generated/aihorde_img2img.webp"
    [] fn = "_generate_nvidia_image_to_image" -> "/media/generated/nvidia_img2img.png"
    [] fn = "_generate_replicate_video" -> "/media/generated/replicate_video.mp4"
    [] OTHER -> "none"

SourceOf(fn) ==
  CASE fn = "_generate_nvidia_text" -> "nvidia"
    [] fn = "_generate_gemini_response" -> "gemini"
    [] OTHER -> "none"

GifUrl == "/media/generated/animation.gif"

\* The i-th logged call is a provider that returned a usable result.
Succeeded(i) == calls[i].fn \in Providers /\ calls[i].ok > 0

\* C3: in the text chain, the text-to-image chain and the two image-to-image
\* chains, once a provider has returned a usable result no later provider of
\* that chain is invoked in the request, and the output of the chain is that
\* provider's result (for a video loop, the animation stitched from it).
ShortCircuit ==
  \A i \in 1..Len(calls) :
    Succeeded(i) =>
      /\ \A j \in (i + 1)..Len(calls) :
           calls[j].site = calls[i].site => calls[j].fn \notin Providers
      /\ (calls[i].site # "text" /\ pc \in {"real", "mock", "text", "return"}) =>
           \/ /\ Len(content_items) = calls[i].ok
              /\ \A k \in 1..Len(content_items) : content_items[k].image_url = UrlOf(calls[i].fn)
           \/ /\ intent = "video_loop"
              /\ calls[i].ok >= 2
              /\ content_items = <<Item("video", GifUrl)>>
      /\ (calls[i].site = "text" /\ pc = "return") =>
           response_text.source = SourceOf(calls[i].fn)

\* The first provider of the refinement chain succeeded while every later one was
\* configured, and the first text provider succeeded while the second was available.
FirstSucceedsLaterAvailable ==
  /\ pc = "return"
  /\ intent = "refinement"
  /\ \A k \in SettingNames : settings[k]
  /\ client # None
  /\ Len(calls) = 2
  /\ calls[1] = Call("refinement", "_generate_cloudflare_img2img", 1, 1)
  /\ calls[2] = Call("text", "_generate_nvidia_text", 1, 1)
  /\ content_items = <<Item("image_generation", "/media/generated/cloudflare_img2img.png")>>

\* The message_type of the most recent assistant message of the session.
LastAssistantType ==
  IF last_assistant(messages) = 0 THEN None
  ELSE messages[last_assistant(messages)].message_type

\* C4: a request with an attached image and no refinement target resolves to
\* image_transformation with confidence 1.0 without the classifier being
\* consulted, whatever its text, its explicit mode and the session history.
AttachedImageTransforms ==
  (Resolved /\ req.image_file /\ NoRefinementTarget) =>
    /\ intent = "image_transformation"
    /\ confidence = Frac(1, 1)
    /\ ~cls.invoked

\* An attached image met a short acknowledgement in a session with history, an
\* explicit video mode and a configured classifier, and still decided the intent.
ImageBeatsFollowUpAndMode ==
  /\ pc = "context"
  /\ req.image_file
  /\ req.refinement_url = None
  /\ req.text = TxtYesPlease
  /\ req.conversation
  /\ req.mode = "video"
  /\ LastAssistantType = "poster_design"
  /\ settings.GEMINI_API_KEY
  /\ intent = "image_transformation"

\* C5: a request with a refinement target resolves to refinement with confidence
\* 1.0 and classify_intent is not invoked, whatever its text, attached image,
\* explicit mode and session history.
RefinementTargetRefines ==
  (Resolved /\ ~NoRefinementTarget) =>
    /\ intent = "refinement"
    /\ confidence = Frac(1, 1)
    /\ ~cls.invoked

\* A refinement target met an attached image, a short acknowledgement in a
\* session with history, an explicit image mode and a configured classifier.
RefinementBeatsEverything ==
  /\ pc = "context"
  /\ req.refinement_url = "/media/generated/a.png"
  /\ req.image_file
  /\ req.text = TxtYes
  /\ req.conversation
  /\ req.mode = "image"
  /\ LastAssistantType = "poster_design"
  /\ settings.GEMINI_API_KEY
  /\ intent = "refinement"

\* The intents that carry artifacts.
ArtifactBearing(t) == t \notin {None, "text", "text_only"}

\* C6: a short acknowledgement without refinement target and attached image, in a
\* session whose most recent assistant message carried an artifact-bearing intent
\* X, resolves to X with confidence 0.9, in a direct call with the session and
\* through the message endpoint, whose response carries the assistant message of
\* type X.
FollowUpReusesIntent ==
  /\ ( /\ Resolved
       /\ via = "direct"
       /\ ShortAcknowledgement
       /\ NoRefinementTarget
       /\ ~req.image_file
       /\ req.conversation
       /\ ArtifactBearing(LastAssistantType) )
     => (intent = LastAssistantType /\ confidence = Frac(9, 10))
  /\ ( /\ http.endpoint = "send_message"
       /\ http.conversation_id = "c1"
       /\ ~http.image_file
       /\ RStrip(Lower(http.content), {".", "!"}) \in SHORT_FOLLOWUPS
       /\ ArtifactBearing(LastAssistantType) )
     => (http.status = 200 /\ http.message_type = LastAssistantType)

\* "yes" posted to the message endpoint of a session whose last assistant message
\* is a poster was answered with a server error and no assistant message.
EndpointFollowUpFails ==
  /\ http.endpoint = "send_message"
  /\ http.content = TxtYes
  /\ http.conversation_id = "c1"
  /\ ~http.image_file
  /\ LastAssistantType = "poster_design"
  /\ http.status = 500
  /\ http.message_type = None

\* C7: a short acknowledgement without refinement target and attached image
\* resolves to text_only with confidence 0.85 when the most recent assistant
\* message of the session was a text-only response, when the session has no
\* assistant message, and when no session is supplied.
FollowUpFallsBackToText ==
  ( /\ Resolved
    /\ ShortAcknowledgement
    /\ NoRefinementTarget
    /\ ~req.image_file
    /\ (~req.conversation \/ LastAssistantType \in {None, "text", "text_only"}) )
  => (intent = "text_only" /\ confidence = Frac(85, 100))

\* "yes" after an assistant message that regenerate_message stored with the type
\* text_only was resolved with the confidence of a reused artifact intent.
TextOnlyReusedAsArtifactIntent ==
  /\ pc = "context"
  /\ via = "direct"
  /\ req = Req(TxtYes, TRUE, FALSE, None, None)
  /\ LastAssistantType = "text_only"
  /\ intent = "text_only"
  /\ confidence = Frac(9, 10)

\* The keyword classifier finds no visual keyword in the request text.
NoVisualKeywords == keyword_table[req.text].intent = "text_only"

\* C8 as stated: every request with explicit mode 'image', no refinement target
\* and no attached image whose text holds no visual keywords resolves to
\* image_generation with confidence 1.0 (unless the classifier answered another
\* intent, which is then returned unchanged), and never to text_only.
ImageModeNeverBareText ==
  (Resolved /\ req.mode = "image" /\ NoRefinementTarget /\ ~req.image_file) =>
    /\ (NoVisualKeywords /\ ~(cls.invoked /\ cls.intent # "text_only")) =>
         (intent = "image_generation" /\ confidence = Frac(1, 1))
    /\ NoVisualKeywords => intent # "text_only"
    /\ (cls.invoked /\ cls.intent # "text_only") =>
         (intent = cls.intent /\ confidence = cls.confidence)

\* C8, amended: the same for the requests the short follow-up rule does not take
\* (the text is no short acknowledgement, or no session is supplied): the
\* classifier is consulted, text_only becomes image_generation with confidence
\* 1.0, and any other classification is returned unchanged.
ImageModeOverridesTextOnly ==
  ( /\ Resolved
    /\ req.mode = "image"
    /\ NoRefinementTarget
    /\ ~req.image_file
    /\ ~(ShortAcknowledgement /\ req.conversation) )
  => /\ cls.invoked
     /\ intent # "text_only"
     /\ cls.intent = "text_only" => (intent = "image_generation" /\ confidence = Frac(1, 1))
     /\ cls.intent # "text_only" => (intent = cls.intent /\ confidence = cls.confidence)

\* In image mode the language model itself answered text_only for "hello", and
\* the intent became image_generation.
ImageModeOverrodeLLM ==
  /\ pc = "context"
  /\ req.mode = "image"
  /\ req.text = TxtHello
  /\ req.conversation
  /\ ~req.image_file
  /\ req.refinement_url = None
  /\ cls.src = "llm"
  /\ cls.intent = "text_only"
  /\ intent = "image_generation"
  /\ confidence = Frac(1, 1)

\* C9: the overrides are taken in the order refinement target, attached image,
\* short follow-up (a short acknowledgement sent with a session), mode 'video',
\* mode 'image', plain classification; the first that applies decides, and only
\* the last two consult the classifier.  With mode 'video' and none of the first
\* three the intent is video_loop with confidence 1.0.
OverridePriority ==
  Resolved =>
    IF ~NoRefinementTarget
      THEN intent = "refinement" /\ confidence = Frac(1, 1) /\ ~cls.invoked
    ELSE IF req.image_file
      THEN intent = "image_transformation" /\ confidence = Frac(1, 1) /\ ~cls.invoked
    ELSE IF ShortAcknowledgement /\ req.conversation
      THEN /\ ~cls.invoked
           /\ \/ intent = LastAssistantType /\ confidence = Frac(9, 10)
              \/ intent = "text_only" /\ confidence = Frac(85, 100)
    ELSE IF req.mode = "video"
      THEN intent = "video_loop" /\ confidence = Frac(1, 1) /\ ~cls.invoked
    ELSE IF req.mode = "image"
      THEN /\ cls.invoked
           /\ intent = (IF cls.intent = "text_only" THEN "image_generation" ELSE cls.intent)
    ELSE cls.invoked /\ intent = cls.intent /\ confidence = cls.confidence

\* Mode 'video' decided a short acknowledgement in a session with a poster
\* history (follow-up beats mode), and mode 'video' decided "hello".
FollowUpBeatsVideoMode ==
  /\ pc = "context"
  /\ req.mode = "video"
  /\ req.text = TxtYesPlease
  /\ req.conversation
  /\ ~req.image_file
  /\ req.refinement_url = None
  /\ LastAssistantType = "poster_design"
  /\ intent = "poster_design"
  /\ confidence = Frac(9, 10)

\* C10: every confidence lies in [0,1]: the one of the call under way, the one in
\* the returned result, and the keyword classifier's for every text; an LLM
\* classification reports 0.95, a keyword match min(score/3, 1.0), the default 0.5.
ConfidenceInRange ==
  /\ confidence \in 0..Frac(1, 1)
  /\ result.confidence \in 0..Frac(1, 1)
  /\ \A t \in Texts : keyword_table[t].confidence \in 0..Frac(1, 1)
  /\ cls.invoked =>
       /\ cls.confidence \in 1..Frac(1, 1)
       /\ cls.src \in {"llm", "keyword", "default"}
       /\ cls.src = "llm" => cls.confidence = Frac(95, 100)
       /\ cls.src = "keyword" =>
            cls.confidence = (IF cls.score >= 3 THEN Frac(1, 1) ELSE Frac(cls.score, 3))
       /\ cls.src = "default" => cls.confidence = Frac(1, 2)

\* "video clip" scores 4 for video_loop, and the confidence returned is 1.0.
KeywordConfidenceCapped ==
  /\ pc = "responded"
  /\ result.intent = "video_loop"
  /\ result.confidence = Frac(1, 1)
  /\ keyword_table[TxtVideoClip].score = 4

\* The number of trigger phrases of entry i of INTENT_MAP that occur as
\* substrings of the lower-cased text t.
TriggerCount(i, t) ==
  Cardinality({k \in 1..Len(INTENT_MAP[i].keywords) :
                 Contains(INTENT_MAP[i].keywords[k], Lower(t))})

\* The count, doubled for the video-loop and the text-only intents.
WeightedCount(i, t) ==
  IF INTENT_MAP[i].intent \in {"video_loop", "text_only"}
  THEN 2 * TriggerCount(i, t) ELSE TriggerCount(i, t)

\* The highest weighted count of t over the intents.
TopCount(t) ==
  CHOOSE n \in 0..100 :
    /\ \E i \in 1..Len(INTENT_MAP) : WeightedCount(i, t) = n
    /\ \A i \in 1..Len(INTENT_MAP) : WeightedCount(i, t) <= n

\* The first intent in enumeration order that holds the highest weighted count.
FirstTop(t) ==
  CHOOSE i \in 1..Len(INTENT_MAP) :
    /\ WeightedCount(i, t) = TopCount(t)
    /\ \A j \in 1..(i - 1) : WeightedCount(j, t) # TopCount(t)

\* For every sample text: the highest weighted count and the intent holding it first.
top_table ==
  [t \in AllTexts |-> [top |-> TopCount(t), first |-> INTENT_MAP[FirstTop(t)].intent]]

trimmed_answer == [a \in LLMTexts |-> Lower(Strip(a))]

\* The labels of the intents the classifier may report.
ValidLabels == {intent_label[i] : i \in IntentKeys \cup {"text_only"}}

\* C12: with the language-understanding provider configured, an answer that,
\* trimmed and lower-cased, is a valid label is returned as that label at
\* confidence 0.95; when the client cannot be built, the provider raises or the
\* answer is no valid label, the classification is exactly the keyword
\* classifier's result, and the call carries on.
LLMClassification ==
  (Resolved /\ cls.invoked /\ settings.GEMINI_API_KEY) =>
    IF cls.llm /\ ~cls.answer.raised /\ trimmed_answer[cls.answer.text] \in ValidLabels
    THEN /\ cls.intent \in IntentKeys \cup {"text_only"}
         /\ intent_label[cls.intent] = trimmed_answer[cls.answer.text]
         /\ cls.confidence = Frac(95, 100)
    ELSE /\ cls.intent = keyword_table[req.text].intent
         /\ cls.confidence = keyword_table[req.text].confidence
         /\ cls.src \in {"keyword", "default"}

\* The provider answered " Poster_Design\n" to a text the keywords classify as
\* video_loop, and the classification is poster_design at 0.95.
LLMLabelAccepted ==
  /\ Resolved
  /\ req.text = TxtVideoClip
  /\ cls.llm
  /\ ~cls.answer.raised
  /\ cls.answer.text # trimmed_answer[cls.answer.text]
  /\ cls.intent = "poster_design"
  /\ cls.confidence = Frac(95, 100)

\* C13: a call whose resolved intent is text_only holds no artifact at any step
\* and returns none, under every configuration and every provider outcome, and
\* the only providers it calls are the text providers of step 3.
TextOnlyNoArtifacts ==
  /\ (Resolved /\ intent = "text_only") =>
       /\ content_items = <<>>
       /\ \A i \in 1..Len(calls) :
            /\ calls[i].site = "text"
            /\ calls[i].fn \in {"_generate_nvidia_text", "_generate_gemini_response"}
  /\ (pc = "responded" /\ result.intent = "text_only") => result.content_items = <<>>

\* With every credential configured a text_only call is about to return: the
\* text provider was called, no artifact was produced.
TextOnlyFullyConfigured ==
  /\ pc = "return"
  /\ intent = "text_only"
  /\ \A k \in SettingNames : settings[k]
  /\ Len(calls) >= 1
  /\ content_items = <<>>

\* The styles held by a stored context.
StylesOf(ctx) == Get(ctx, "preferred_styles", <<>>)

\* C14: the context update of a call with a session stores as preferred_styles
\* the union of the styles stored before and the vocabulary terms found in the
\* text, each once; no other step changes the stored context.  From the empty
\* context the stored styles are therefore the union over the texts fed so far,
\* whatever their order, and feeding a text again changes nothing.
StyleSetSemantics ==
  [][ /\ (pc = "context" /\ req.conversation) =>
           /\ Range(StylesOf(user_context')) =
                Range(StylesOf(user_context)) \cup styles_table[req.text]
           /\ Len(StylesOf(user_context')) = Cardinality(Range(StylesOf(user_context')))
      /\ (pc # "context" \/ ~req.conversation) => user_context' = user_context ]_vars

\* A text holding 'noir' has just been fed to a context that held 'pastel' (and
\* perhaps 'noir' already): the context holds exactly the two, each once.
BothStylesStored ==
  /\ pc = "content"
  /\ req.conversation
  /\ styles_table[req.text] = {"noir"}
  /\ Len(StylesOf(user_context)) = 2
  /\ Range(StylesOf(user_context)) = {"noir", "pastel"}

\* C15: under every interleaving of the requests that update one session, a style
\* that the stored context holds is held by every later stored context.
ContextMonotonic ==
  [][Range(StylesOf(user_context)) \subseteq Range(StylesOf(user_context'))]_vars

\* A worker holds a style in the instance it loaded or wrote back, and the stored
\* context no longer holds it: another worker's write-back has overwritten it.
LostStyle ==
  \E w \in Workers :
    /\ sessions[w].loaded
    /\ "noir" \in Range(StylesOf(sessions[w].user_context))
    /\ "noir" \notin Range(StylesOf(user_context))
    /\ "pastel" \in Range(StylesOf(user_context))

\* Every reference of the list handed to the stitcher fetches and decodes.
AllFramesGood ==
  /\ Len(stitch.image_urls) >= 1
  /\ \A i \in 1..Len(stitch.image_urls) :
       /\ stitch.image_urls[i].scheme \in {"media", "http"}
       /\ stitch.image_urls[i].outcome = "ok"

\* C16: when every reference of the list fetches and decodes, the stitcher returns
\* one animation: as many frames as references, in the order of the list, each
\* with the dimensions of the first frame, 500 ms per frame, looping for ever.
StitchAllFramesGood ==
  (stitch.called /\ AllFramesGood) =>
    /\ stitch.ret.url # None
    /\ Len(stitch.ret.frames) = Len(stitch.image_urls)
    /\ \A i \in 1..Len(stitch.image_urls) :
         /\ stitch.ret.frames[i] = stitch.image_urls[i].image
         /\ stitch.ret.sizes[i] = stitch.image_urls[1].size
    /\ stitch.ret.duration = 500
    /\ stitch.ret.loop = 0

\* Three good frames, the second of other dimensions than the first, were stitched.
StitchedThreeFrames ==
  /\ stitch.called
  /\ AllFramesGood
  /\ Len(stitch.image_urls) = 3
  /\ stitch.image_urls[2].size # stitch.image_urls[1].size
  /\ stitch.ret.frames = <<"A", "B", "C">>

\* The references that fetch and decode, in the order of the list.
Survivors ==
  SelectSeq(stitch.image_urls,
            LAMBDA u : u.scheme \in {"media", "http"} /\ u.outcome = "ok")

\* C17: the stitcher drops every reference that fails to fetch or to decode and
\* stitches the others in their order; when none is left it returns None.
StitchDropsFailedFrames ==
  stitch.called =>
    IF Survivors = <<>>
    THEN stitch.ret = NoGif
    ELSE /\ stitch.ret.url # None
         /\ stitch.ret.frames = [i \in 1..Len(Survivors) |-> Survivors[i].image]

\* A good frame and a frame whose pixel data do not decode were handed to the
\* stitcher, and it returned None.
GoodFrameLost ==
  /\ stitch.called
  /\ Survivors # <<>>
  /\ \E i \in 1..Len(stitch.image_urls) : stitch.image_urls[i].outcome = "truncated"
  /\ stitch.ret = NoGif

\* All product keywords.
ProductWords == ShirtWords \cup MugWords \cup PhoneWords \cup HoodieWords

\* For every sample prompt: the product keywords that occur in it, lower-cased.
mentions == [t \in MockupTexts |-> {w \in ProductWords : Contains(w, Lower(t))}]

\* The mug prompt and rectangle, the rectangle being other than the shirt's.
MugChosen ==
  /\ mockup.category.product = "mug"
  /\ mockup.category.base_prompt = MugCategory.base_prompt
  /\ mockup.category.area = <<20, 25, 80, 75>>
  /\ mockup.category.area # TShirtCategory.area

\* The shirt prompt and rectangle.
ShirtChosen ==
  /\ mockup.category.product = "t-shirt"
  /\ mockup.category.base_prompt = TShirtCategory.base_prompt
  /\ mockup.category.area = <<25, 20, 75, 65>>

\* C18 as stated: every prompt containing 'mug' gets the mug prompt and the mug
\* rectangle; a prompt with no product keyword gets the shirt's.
MugAlwaysSelected ==
  mockup.called =>
    /\ <<"m","u","g">> \in mentions[mockup.prompt] => MugChosen
    /\ mentions[mockup.prompt] = {} => ShirtChosen

\* C18, amended: a prompt containing 'mug' and no shirt keyword gets the mug
\* prompt and the mug rectangle, which differs from the shirt's; a prompt
\* containing a shirt keyword gets the shirt's even if it contains 'mug'; a
\* prompt with no product keyword gets the shirt's.
MugSelectedUnlessShirt ==
  mockup.called =>
    /\ (<<"m","u","g">> \in mentions[mockup.prompt] /\ mentions[mockup.prompt] \cap ShirtWords = {})
         => MugChosen
    /\ mentions[mockup.prompt] \cap ShirtWords # {} => ShirtChosen
    /\ mentions[mockup.prompt] = {} => ShirtChosen

\* The compositor was called on 'pastel mug mockup' and chose the mug.
MugMockupChosen ==
  /\ mockup.called
  /\ mockup.prompt = TxtMugMockup
  /\ mentions[mockup.prompt] = {<<"m","u","g">>}
  /\ MugChosen

\* The request asks for a product mockup and carries a design image, no
\* refinement target.
MockupRequestWithImage ==
  /\ req.text = TxtMugMockup
  /\ keyword_table[req.text].intent = "product_mockup"
  /\ req.image_file
  /\ NoRefinementTarget

\* C19: a request that asks for a product mockup and carries a design image (no
\* refinement target) resolves to product_mockup, and once step 2 is over the
\* compositing path has served it.
MockupRequestComposited ==
  /\ (Resolved /\ MockupRequestWithImage) => intent = "product_mockup"
  /\ (ContentDone /\ MockupRequestWithImage) =>
       \E i \in 1..Len(calls) : calls[i].site = "mockup"

\* Such a request is about to return: it was resolved to image_transformation
\* and served by the image-to-image chain.
MockupRequestTransformed ==
  /\ pc = "return"
  /\ MockupRequestWithImage
  /\ intent = "image_transformation"
  /\ \E i \in 1..Len(calls) : calls[i].site = "transformation"
  /\ \A i \in 1..Len(calls) : calls[i].site # "mockup"
  /\ Len(content_items) >= 1

\* The place of a strategy in the image-to-image chain, 0 for the others.
ChainRank(fn) ==
  CASE fn = "_generate_cloudflare_img2img" -> 1
    [] fn = "_generate_aihorde_img2img" -> 2
    [] fn = "_generate_nvidia_image_to_image" -> 3
    [] fn = "_edit_huggingface_image" -> 4
    [] fn = "_generate_pollinations_image" -> 5
    [] OTHER -> 0

\* C20: a refinement and an image_transformation run the same chain: Cloudflare,
\* AI Horde, NVIDIA image-to-image, Hugging Face edit, text-to-image degrade, in
\* that order, a configured step being attempted before any later one.
SameImageToImageChain ==
  (Resolved /\ intent \in {"refinement", "image_transformation"}) =>
    /\ \A i, j \in 1..Len(calls) :
         (i < j /\ ChainRank(calls[i].fn) > 0 /\ ChainRank(calls[j].fn) > 0)
           => ChainRank(calls[i].fn) <= ChainRank(calls[j].fn)
    /\ \A j \in 1..Len(calls) :
         (calls[j].fn = "_generate_pollinations_image" /\ settings.HUGGINGFACE_API_KEY)
           => \E i \in 1..(j - 1) : calls[i].fn = "_edit_huggingface_image"

\* An image_transformation with the Hugging Face credential configured is about
\* to return the text-to-image degrade; the Hugging Face edit was never attempted.
TransformationSkipsEdit ==
  /\ pc = "return"
  /\ intent = "image_transformation"
  /\ req.image_file
  /\ settings.HUGGINGFACE_API_KEY
  /\ \E i \in 1..Len(calls) :
       /\ calls[i].site = "transformation"
       /\ calls[i].fn = "_generate_pollinations_image"
       /\ calls[i].ok = 1
  /\ \A i \in 1..Len(calls) : calls[i].fn # "_edit_huggingface_image"

\* The artifacts of the call under way are the placeholder stills or the
\* animation stitched from placeholder frames.
MockUsed ==
  /\ Len(content_items) >= 1
  /\ \/ \A i \in 1..Len(content_items) : content_items[i].image_url = MockUrl
     \/ \E i \in 1..Len(calls) : calls[i].site = "mock" /\ calls[i].ok > 0

\* C21: for a visual intent the placeholder mock is used only after the
\* text-to-image chain has been attempted to its end: the key-less provider
\* Pollinations was called before and produced no image, also when no keyed
\* provider is configured.
MockOnlyAfterPollinations ==
  (ContentDone /\ intent # "text_only" /\ MockUsed) =>
    \E i \in 1..Len(calls) :
      calls[i].fn = "_generate_pollinations_image" /\ calls[i].ok = 0

\* With no credential configured a poster request is about to return the
\* placeholder stills, and no provider at all was called.
MockWithoutPollinations ==
  /\ pc = "return"
  /\ intent = "poster_design"
  /\ \A k \in SettingNames : ~settings[k]
  /\ MockUsed
  /\ calls = <<>>

\* The strategies of the text-to-image chain.
TextToImage ==
  {"_generate_nvidia_image", "_generate_imagen_images_batch", "_generate_huggingface_image",
   "_generate_pollinations_image"}

\* The video provider gave nothing, a provider of the text-to-image chain
\* yielded at least 2 frames, and no stitching attempt failed on fetching them.
FramesForLoop ==
  /\ \A i \in 1..Len(calls) : calls[i].fn = "_generate_replicate_video" => calls[i].ok = 0
  /\ \E i \in 1..Len(calls) : calls[i].fn \in TextToImage /\ calls[i].ok >= 2
  /\ \A i \in 1..Len(calls) : calls[i].fn = "_create_gif_from_images" => calls[i].ok > 0

\* C22: a video_loop request whose video provider is absent or fails and whose
\* text-to-image chain yields at least 2 frames, from whichever provider,
\* returns one stitched animation and not a list of stills.
FramesAreStitched ==
  (ContentDone /\ intent = "video_loop" /\ FramesForLoop) =>
    /\ Len(content_items) = 1
    /\ content_items[1].image_url = GifUrl

\* A video_loop request is about to return the stills of Pollinations as they
\* came: no stitching was attempted.
StillsForVideoLoop ==
  /\ pc = "return"
  /\ intent = "video_loop"
  /\ FramesForLoop
  /\ Len(content_items) >= 2
  /\ \A i \in 1..Len(content_items) :
       content_items[i].image_url = UrlOf("_generate_pollinations_image")
  /\ \A i \in 1..Len(calls) : calls[i].fn # "_create_gif_from_images"

\* The polling loop of the call has run to its ceiling and the job state last
\* seen is not terminal.
CeilingReached ==
  /\ job.pc = "returned"
  /\ \/ /\ job.fn = "_generate_aihorde_img2img"
        /\ job.polls = 40
        /\ job.status \in {"queued", "waiting", "poll_error"}
     \/ /\ job.fn = "_generate_replicate_video"
        /\ job.polls = 60
        /\ job.status \in {"starting", "processing"}

\* C23: an AI Horde call issues at most 40 status polls within its 120 s
\* ceiling, a Replicate call at most 60 within its 300 s; a call that reaches the
\* ceiling without a terminal job state returns None, and the AI Horde call has
\* then sent exactly one cancel request (never more than one, none otherwise).
PollsBounded ==
  /\ job.fn = "_generate_aihorde_img2img" =>
       /\ job.polls <= 40
       /\ job.elapsed = 3 * job.polls
       /\ job.elapsed <= 120
  /\ job.fn = "_generate_replicate_video" =>
       /\ job.polls <= 60
       /\ job.elapsed = 5 * job.polls
       /\ job.elapsed <= 300
       /\ job.cancels = 0
  /\ CeilingReached =>
       /\ job.ret = None
       /\ job.fn = "_generate_aihorde_img2img" => job.cancels = 1
  /\ job.cancels = 1 => (job.pc = "returned" /\ job.polls = 40)
  /\ job.cancels <= 1

\* An AI Horde job was still waiting at the 40th poll: it was canceled once and
\* the call returned None.
HordeTimedOut ==
  /\ CeilingReached
  /\ job.fn = "_generate_aihorde_img2img"
  /\ job.status = "waiting"
  /\ job.elapsed = horde_max_wait
  /\ job.cancels = 1
  /\ job.ret = None

\* C24: within one request a provider that was attempted and produced no result
\* is not attempted again, and the text-to-image chain is traversed at most once.
NoSecondAttempt ==
  Resolved =>
    \A i, j \in 1..Len(calls) :
      (i < j /\ calls[i].fn \in Providers /\ calls[i].ok = 0) => calls[j].fn # calls[i].fn

\* A refinement is about to return after Pollinations was attempted three times:
\* as the degrade of the refinement chain, in the last-resort generation and in
\* the general generation.
PollinationsRetried ==
  /\ pc = "return"
  /\ intent = "refinement"
  /\ \E i, j, k \in 1..Len(calls) :
       /\ calls[i].fn = "_generate_pollinations_image" /\ calls[i].site = "refinement"
       /\ calls[j].fn = "_generate_pollinations_image"
       /\ calls[j].site = "refinement_last_resort"
       /\ calls[k].fn = "_generate_pollinations_image" /\ calls[k].site = "real_content"
       /\ calls[i].ok = 0 /\ calls[j].ok = 0 /\ calls[k].ok = 0

\* C25: on every request, through the endpoints too, once step 1 is over the
\* stored context holds the style terms named in the request text, before any
\* artifact is generated.
ContextUpdatedBeforeContent ==
  (pc \in {"content", "real", "mock", "text", "return"})
    => styles_table[req.text] \subseteq Range(StylesOf(user_context))

\* The regenerate endpoint has had generate_response serve 'noir poster' up to
\* its return statement, and the stored context holds no style.
EndpointSkipsContext ==
  /\ pc = "return"
  /\ via = "regenerate"
  /\ styles_table[req.text] = {"noir"}
  /\ ~req.conversation
  /\ StylesOf(user_context) = <<>>
  /\ Len(content_items) >= 1

\* No construction of the handle has failed.
NoConstructionFailed == \A t \in Threads : threads[t].failed = 0

\* Every thread has made a call and none is inside one.
AllReturned == \A t \in Threads : threads[t].pc = "done"

\* Every finished call has returned a handle, and once all have returned a
\* handle is memoized.
HandleEverywhere ==
  /\ \A t \in Threads : threads[t].pc = "done" => threads[t].ret \in Handles
  /\ AllReturned => _client \in Handles

\* A call that starts when a handle is memoized returns that handle at once,
\* builds nothing and leaves the memo alone.
LaterCallsReuse ==
  \A t \in Threads :
    (threads[t].pc \in {"out", "done"} /\ _client # None /\ threads'[t].calls > threads[t].calls)
      => /\ threads'[t].pc = "done"
         /\ threads'[t].ret = _client
         /\ threads'[t].built = threads[t].built
         /\ _client' = _client

EnumeratedIntents ==
  {"text_only", "image_generation", "image_transformation", "poster_design", "vision_board",
   "brand_artwork", "story_sequence", "video_loop", "product_mockup", "refinement"}

\* C27: the intent resolved for a request, and the one the result reports, is
\* always one of the enumerated intents, also when it is reused from the stored
\* type of the last assistant message.
IntentEnumerated ==
  /\ Resolved => intent \in EnumeratedIntents
  /\ pc = "responded" => result.intent \in EnumeratedIntents

\* 'yes' in a session whose last assistant message is stored as 'mixed' has
\* been served up to the return statement.
MixedTypeReused ==
  /\ pc = "return"
  /\ req.text = TxtYes
  /\ req.conversation
  /\ messages[last_assistant(messages)].message_type = "mixed"
  /\ intent = "mixed"

\* The content kinds the specification enumerates.
EnumeratedKinds == {"artwork", "poster", "photo", "vision_board", "brand_asset", "video"}

\* C28: every artifact of every returned result carries one of the enumerated
\* content kinds, whichever path produced it.
KindsEnumerated ==
  pc = "responded" =>
    \A k \in 1..Len(result.content_items) :
      result.content_items[k].content_type \in EnumeratedKinds

\* A result has been returned whose artifact is labelled with an intent name
\* or with the default 'image'.
IntentNameAsKind ==
  /\ pc = "responded"
  /\ Len(result.content_items) >= 1
  /\ result.content_items[1].content_type \in {"image_generation", "image_transformation", "image"}

\* The calls of the text chain made so far, in order.
TextCalls == SelectSeq(calls, LAMBDA c : c.site = "text")

\* C29: the text chain asks NVIDIA first (when its key is configured), Gemini
\* only after NVIDIA yielded no text, and the local template only when neither
\* yielded text; the template takes the text_only pool exactly for intent
\* text_only, otherwise the visual pool with the number of artifacts, and adds
\* the three options exactly for story_sequence and brand_artwork.
TextChainOrder ==
  pc = "return" =>
    /\ Len(TextCalls) <= 2
    /\ \A k \in 1..Len(TextCalls) :
         /\ TextCalls[k].fn = "_generate_nvidia_text" => k = 1
         /\ TextCalls[k].fn = "_generate_gemini_response" =>
              \A j \in 1..(k - 1) : TextCalls[j].ok = 0
         /\ TextCalls[k].ok = 1 => k = Len(TextCalls)
    /\ settings.NVIDIA_API_KEY <=>
         (\E k \in 1..Len(TextCalls) : TextCalls[k].fn = "_generate_nvidia_text")
    /\ response_text.source = "mock" <=> (\A k \in 1..Len(TextCalls) : TextCalls[k].ok = 0)
    /\ response_text.source = "nvidia" =>
         TextCalls[Len(TextCalls)].fn = "_generate_nvidia_text"
    /\ response_text.source = "gemini" =>
         TextCalls[Len(TextCalls)].fn = "_generate_gemini_response"
    /\ response_text.source = "mock" =>
         /\ response_text.pool = "text_only" <=> intent = "text_only"
         /\ response_text.pool = "visual" <=> intent # "text_only"
         /\ response_text.pool = "visual" => response_text.n = Len(content_items)
         /\ response_text.options <=> intent \in {"story_sequence", "brand_artwork"}

\* Both text providers were asked in turn and yielded nothing, and the template
\* answered a brand_artwork request from the visual pool with the three options.
TemplateAfterBothFailed ==
  /\ pc = "return"
  /\ intent = "brand_artwork"
  /\ Len(TextCalls) = 2
  /\ TextCalls[1].fn = "_generate_nvidia_text"
  /\ TextCalls[2].fn = "_generate_gemini_response"
  /\ response_text.source = "mock"
  /\ response_text.pool = "visual"
  /\ response_text.n = Len(content_items)
  /\ response_text.n >= 1
  /\ response_text.options

\* C30: every text provider call of a request was given the context fragment
\* of the session and the recent history, at most its last eight turns.
TextProvidersGivenContext ==
  pc = "return" =>
    \A k \in 1..Len(prompts) :
      /\ Len(prompts[k].history) <= 8
      /\ prompts[k].history = last_turns(chat_history(req, messages))
      /\ prompts[k].context = _get_context_prompt(req, user_context)

\* NVIDIA has been asked for the text of 'noir poster' in a session of twelve
\* messages that prefers noir: it was given ten messages and no fragment.
NvidiaGivenTenTurns ==
  /\ pc = "return"
  /\ req.conversation
  /\ Len(messages) = 12
  /\ _get_context_prompt(req, user_context) = <<"noir">>
  /\ Len(prompts) >= 1
  /\ prompts[1].fn = "_generate_nvidia_text"
  /\ Len(prompts[1].history) = 10
  /\ prompts[1].context = <<>>

\* The calls of the refinement branch that asked an image-to-image provider.
ImageToImageCalls ==
  {i \in 1..Len(calls) : calls[i].site = "refinement"
                           /\ calls[i].fn # "_generate_pollinations_image"}

\* The calls made with the composition-preserving prompt (lines 1590-1605).
QualifiedCalls ==
  {i \in 1..Len(calls) :
     \/ calls[i].site = "refinement" /\ calls[i].fn = "_generate_pollinations_image"
     \/ calls[i].site = "refinement_last_resort"}

\* C31: in a refinement whose artifact was fetched and whose image-to-image
\* providers all gave nothing, a text-to-image call with the composition
\* qualifier precedes every unqualified generation and the placeholders, and an
\* artifact obtained with the qualifier is the only artifact of the result.
QualifiedDegradeFirst ==
  (pc = "return" /\ intent = "refinement" /\ req.refinement_url \in MediaFiles
     /\ \A i \in ImageToImageCalls : calls[i].ok = 0)
    => /\ QualifiedCalls # {}
       /\ \A j \in 1..Len(calls) :
            calls[j].site \in {"real_content", "mock"}
              => \E i \in QualifiedCalls : i < j
       /\ (\E i \in QualifiedCalls : calls[i].ok > 0) => Len(content_items) = 1

\* Every image-to-image provider and the qualified Pollinations call gave
\* nothing, the regular generation run with the qualified prompt gave four
\* images, and the refinement is about to return all four.
QualifiedDegradeGaveFour ==
  /\ pc = "return"
  /\ intent = "refinement"
  /\ req.refinement_url \in MediaFiles
  /\ \A i \in ImageToImageCalls : calls[i].ok = 0
  /\ \E i \in 1..Len(calls) :
       /\ calls[i].site = "refinement" /\ calls[i].fn = "_generate_pollinations_image"
       /\ calls[i].ok = 0
  /\ \E i \in 1..Len(calls) : calls[i].site = "refinement_last_resort" /\ calls[i].ok = 4
  /\ Len(content_items) = 4

\* A request with a session, as _get_context_prompt sees it.
WithSession == Req(TxtHello, TRUE, FALSE, None, None)

\* The fragment read for the stored session, as the styles it lists.
StoredFragment == _get_context_prompt(WithSession, user_context)

\* The fragment is empty exactly when no style is recorded (or there is no
\* session), and otherwise lists every recorded style.
FragmentListsStyles ==
  /\ StoredFragment = <<>> <=> Get(user_context, "preferred_styles", <<>>) = <<>>
  /\ Range(StoredFragment) = Range(Get(user_context, "preferred_styles", <<>>))
  /\ _get_context_prompt(NoReq, user_context) = <<>>

\* C32: the fragment read for a session is empty exactly when the session has
\* no recorded style, lists every recorded style otherwise, and a style once
\* recorded by an update is listed by every later read of that session.
FragmentKeepsRecordedStyles ==
  /\ []FragmentListsStyles
  /\ [][Range(StoredFragment) \subseteq Range(_get_context_prompt(WithSession, user_context'))]_vars

\* One worker's update recorded pastel; the fragment now read for the session
\* lists noir alone.
FragmentLostPastel ==
  /\ StoredFragment = <<"noir">>
  /\ \E w \in Workers :
       /\ sessions[w].loaded
       /\ "pastel" \in Range(_get_context_prompt(WithSession, sessions[w].user_context))

\* The request the message endpoint has just answered had no conversation id,
\* or neither text nor image.
AnsweredInvalid(h) ==
  /\ h.endpoint = "send_message"
  /\ h.conversation_id = None \/ (h.content = <<>> /\ ~h.image_file)

\* C33: a request to the message endpoint without conversation id, or with
\* neither text nor image, is answered with an error status; the orchestrator
\* is not entered and no message or generated content is created or changed.
InvalidRequestRejected ==
  /\ [](AnsweredInvalid(http) => http.status = 400)
  /\ [][(http' # http /\ AnsweredInvalid(http'))
          => /\ http'.status = 400
             /\ messages' = messages
             /\ <<pc, via, req, intent, calls, content_items, result>>' =
                  <<pc, via, req, intent, calls, content_items, result>>]_vars

\* An empty message for the stored conversation has been refused, and the
\* conversation still holds what it held.
EmptyMessageRefused ==
  /\ http.endpoint = "send_message"
  /\ http.status = 400
  /\ http.conversation_id = "c1"
  /\ http.content = <<>>
  /\ ~http.image_file
  /\ pc = "idle"
  /\ Len(messages) = 2
  /\ calls = <<>>

\* The image-to-image strategies.
ImageToImage ==
  {"_generate_cloudflare_img2img", "_generate_aihorde_img2img",
   "_generate_nvidia_image_to_image", "_edit_huggingface_image"}

\* C34: a refinement whose referenced file is not in local storage reaches its
\* return statement without any image-to-image provider having been called,
\* with at least one artifact, each from the generic generation or the mock.
MissingArtifactDegrades ==
  (pc = "return" /\ req.refinement_url # None /\ req.refinement_url \notin MediaFiles)
    => /\ intent = "refinement"
       /\ \A i \in 1..Len(calls) :
            /\ calls[i].fn \notin ImageToImage
            /\ calls[i].site \in {"real_content", "mock", "text"}
       /\ Len(content_items) >= 1
       /\ \A k \in 1..Len(content_items) :
            content_items[k].image_url \in {UrlOf(f) : f \in TextToImage} \cup {MockUrl}

\* With every credential configured and every provider failing, the refinement
\* of a file that is gone is about to return the placeholders.
MissingArtifactMocked ==
  /\ pc = "return"
  /\ req.refinement_url = "/media/generated/gone.png"
  /\ \A k \in SettingNames : settings[k]
  /\ \E i \in 1..Len(calls) : calls[i].site = "real_content" /\ calls[i].ok = 0
  /\ Len(content_items) = 4
  /\ content_items[1].image_url = MockUrl

\* C35: in an AI Horde call a failed poll leaves the loop running, a status of
\* faulted or done ends the call at once, the cancel request is sent only at
\* the ceiling and never once the job was reported done or faulted, and a done
\* job without a downloadable image yields None.
HordeLoopExits ==
  /\ [](job.fn = "_generate_aihorde_img2img" =>
          /\ job.status = "poll_error" =>
               (job.pc = "polling" \/ (job.cancels = 1 /\ job.elapsed = horde_max_wait))
          /\ (job.status = "faulted" \/ job.done_seen) => job.pc = "returned"
          /\ job.cancels = 1 => (job.elapsed = horde_max_wait /\ ~job.done_seen
                                   /\ job.status # "faulted")
          /\ job.status \in HordeDone \ {"done"} => job.ret = None)
  /\ [][(job.fn = "_generate_aihorde_img2img" /\ job'.polls = job.polls + 1
           /\ job'.status = "poll_error") => job'.pc = "polling"]_vars

\* The job was reported done, the download of its image broke off, polling
\* went on to the ceiling, and the job that was done has been canceled.
CanceledAfterDone ==
  /\ job.fn = "_generate_aihorde_img2img"
  /\ job.pc = "returned"
  /\ job.done_seen
  /\ job.polls = 40
  /\ job.cancels = 1
  /\ job.ret = None

\* The states of a prediction that end the polling of _generate_replicate_video.
ReplicateTerminal == {"succeeded", "failed", "canceled"}

\* C36: a Replicate call issues no poll once the prediction is in a terminal
\* status, the answer to its creation included; a poll answered with another
\* status than 200 ends the polling and the call returns None; a video is
\* returned only when the last status seen is succeeded, and never for failed
\* or canceled.
ReplicateLoopExits ==
  /\ [](job.fn = "_generate_replicate_video" =>
          /\ job.ret # None => (job.status = "succeeded" /\ job.pc = "returned")
          /\ job.status \in {"failed", "canceled"} => job.ret = None
          /\ job.pc = "left" => job.status \notin ReplicateTerminal)
  /\ [][job.fn = "_generate_replicate_video" =>
          /\ job.status \in ReplicateTerminal => job'.polls = job.polls
          /\ job.pc = "left" =>
               (job'.pc = "returned" /\ job'.ret = None /\ job'.polls = job.polls)]_vars

\* The answer to the creation already said succeeded: no poll was issued and
\* the downloaded video is returned.
ReplicateDoneAtCreation ==
  /\ job.fn = "_generate_replicate_video"
  /\ job.pc = "returned"
  /\ job.polls = 0
  /\ job.status = "succeeded"
  /\ job.ret = "/media/generated/replicate_video.mp4"

\* The keys of a context other than preferred_styles, with their values.
OtherKeys(ctx) == [k \in DOMAIN ctx \ {"preferred_styles"} |-> ctx[k]]

FirstCallUnderWay == \E t \in Threads : threads[t].pc \in {"try", "store"}

\* The constructions performed so far, thread by thread.
Built == [t \in Threads |-> threads[t].built]

\* A failure is never memoized: the memo holds a handle or nothing, a call
\* that ends without key or in a failed construction returns None and leaves
\* the memo as it was, and a call made with a key while nothing is memoized
\* tries the construction.
FailureNotMemoized ==
  /\ [](_client \in Handles \cup {None})
  /\ [][\A t \in Threads :
          /\ threads'[t].failed > threads[t].failed
               => (threads'[t].ret = None /\ threads'[t].pc = "done" /\ _client' = _client)
          /\ (threads'[t].calls > threads[t].calls /\ _client = None)
               => /\ _client' = None
                  /\ IF settings.GEMINI_API_KEY
                     THEN threads'[t].pc = "try"
                     ELSE threads'[t].pc = "done" /\ threads'[t].ret = None]_vars

\* C38 as stated: a failure is never memoized, and once a construction has
\* succeeded and is memoized, the memo stays that handle and every call made
\* from then on returns it without constructing.
MemoFinal ==
  /\ FailureNotMemoized
  /\ [][_client # None
          => /\ _client' = _client
             /\ \A t \in Threads :
                  threads'[t].calls > threads[t].calls
                    => (threads'[t].ret = _client /\ Built' = Built)]_vars

\* C38, amended: a failure is never memoized, and once a handle is memoized and
\* no call that found the memo empty is still under way, the memo stays the
\* same handle, every call returns it and nothing is constructed any more.
MemoFinalAfterRace ==
  /\ FailureNotMemoized
  /\ [][(_client # None /\ ~FirstCallUnderWay)
          => /\ _client' = _client
             /\ Built' = Built
             /\ ~FirstCallUnderWay'
             /\ \A t \in Threads :
                  threads'[t].calls > threads[t].calls => threads'[t].ret = _client]_vars

\* A thread's first call failed in the constructor and left nothing memoized;
\* its second call constructed the handle that is memoized now.
RetriedAfterFailure ==
  \E t \in Threads :
    /\ threads[t].failed = 1
    /\ threads[t].built = 1
    /\ threads[t].calls = 2
    /\ threads[t].pc = "done"
    /\ threads[t].ret = HandleOf[t]
    /\ _client = HandleOf[t]
    /\ ~FirstCallUnderWay

\* The text-to-image strategies of the generic generation that gave an image.
ToppedUpBy ==
  {calls[i].fn : i \in {j \in 1..Len(calls) : /\ calls[j].site = "real_content"
                                               /\ calls[j].fn \in TextToImage
                                               /\ calls[j].ok > 0}}

\* C39: a request that is not text_only returns between one and four
\* artifacts: exactly one when the refinement, transformation, mockup or video
\* path yielded it, the images of a single text-to-image provider when the
\* generic generation yielded them, and from the mock four placeholders, or for
\* video_loop one to four GIFs, or four stills when every GIF failed.
ArtifactCount ==
  (pc = "return" /\ intent # "text_only")
    => /\ Len(content_items) \in 1..4
       /\ (\E i \in 1..Len(calls) :
             /\ calls[i].site \in {"refinement", "refinement_last_resort", "transformation",
                                   "video"}
             /\ calls[i].ok > 0)
            => Len(content_items) = 1
       /\ (\E k \in 1..Len(content_items) :
             content_items[k].image_url = "/media/mockups/mockup.jpg")
            => Len(content_items) = 1
       /\ Cardinality(ToppedUpBy) <= 1
       /\ \A i \in 1..Len(calls) :
            (calls[i].site = "real_content" /\ calls[i].fn \in TextToImage /\ calls[i].ok > 0)
              => Len(content_items) \in {1, calls[i].ok}
       /\ \A i \in 1..Len(calls) :
            calls[i].site = "mock"
              => Len(content_items) = (IF calls[i].ok > 0 THEN calls[i].ok ELSE 4)
       /\ (\A k \in 1..Len(content_items) : content_items[k].image_url = MockUrl)
            => Len(content_items) = 4

\* A refinement whose image-to-image providers and qualified Pollinations call
\* gave nothing is about to return the three images its regular generation
\* obtained from NVIDIA.
RefinementReturnsThree ==
  /\ pc = "return"
  /\ intent = "refinement"
  /\ \E i \in 1..Len(calls) :
       /\ calls[i].site = "refinement_last_resort"
       /\ calls[i].fn = "_generate_nvidia_image"
       /\ calls[i].ok = 3
  /\ Len(content_items) = 3

=============================================================================
